---- MODULE Spec2Model ----
(***************************************************************************)
(* 8-bit Studio (src/src/App.tsx): the conversion orchestrator of the App  *)
(* component (job ids, uploads, asynchronous completions) and the pure     *)
(* pipeline functions below it (size budget, quantizer, GIF frame          *)
(* extraction, palette lookup, indexed block expansion).                   *)
(***************************************************************************)
EXTENDS Integers, Sequences, FiniteSets, TLC

(***************************************************************************)
(* Bounds of the orchestrator model.                                       *)
(***************************************************************************)
\* user triggers (uploads and parameter changes) in one behaviour of Spec
MaxTriggers == 2
\* parameter changes in one behaviour of SpecStill
MaxStillChanges == 2
\* parameter changes after the upload of an animation
MaxGifChanges == 2

\* App.tsx:217
MAX_GIF_PIXELS == 4000000

\* JavaScript null / undefined
Null == [null |-> TRUE]

Max(a, b) == IF a >= b THEN a ELSE b
Min(a, b) == IF a <= b THEN a ELSE b

(***************************************************************************)
(* Orchestrator state: the useState cells and refs of App, and the         *)
(* asynchronous operations in flight.                                      *)
(***************************************************************************)
VARIABLES
    pixelSize,      \* useState(12)
    resolution,     \* useState(128)
    paletteId,      \* useState("gameboy")
    sourceName,     \* useState("")
    sourcePreview,  \* data URL of the uploaded file, or Null
    resultPreview,  \* URL of the displayed result, or Null
    status,         \* status line
    vectorData,     \* grid kept for the SVG export, or Null
    outputFormat,   \* "image/png" | "image/gif"
    isProcessing,
    sourceGif,      \* decoded GifSource, or Null
    isGifParsing,
    jobRef,         \* jobRef.current
    previewReads,   \* FileReader.readAsDataURL calls in flight
    gifParses,      \* file.arrayBuffer().then(extractGifSource) chains in flight
    images,         \* Image elements whose onload / onerror is pending
    revokedUrls,    \* blob URLs passed to URL.revokeObjectURL
    accepted,       \* history: number of handleFile calls that passed the type test
    triggers,       \* history: number of uploads and parameter changes so far
    last            \* history: the kind of handler that ran last

(***************************************************************************)
(* One call of a pipeline function, followed step by step: the function's  *)
(* arguments, its local variables, its position and its return value.      *)
(***************************************************************************)
VARIABLES
    pc,             \* "idle", or the position inside the function called
    args,           \* the arguments of the call
    locals,         \* the local variables of the call
    ret             \* the value returned (or the error thrown)

callVars == <<pc, args, locals, ret>>

appVars == <<pixelSize, resolution, paletteId, sourceName, sourcePreview,
             resultPreview, status, vectorData, outputFormat, isProcessing,
             sourceGif, isGifParsing, jobRef, previewReads, gifParses, images,
             revokedUrls, accepted, triggers, last>>

(***************************************************************************)
(* Inputs: the files a user can drop and the values the controls offer.    *)
(***************************************************************************)
\* a still image, 2:1
PngA == [name |-> "a.png", type |-> "image/png", ext |-> ".png",
         width |-> 2, height |-> 1, frameCount |-> 1,
         decodes |-> TRUE, parses |-> FALSE]
\* a file typed image/png whose bytes no decoder accepts
PngBad == [name |-> "bad.png", type |-> "image/png", ext |-> ".png",
           width |-> 0, height |-> 0, frameCount |-> 0,
           decodes |-> FALSE, parses |-> FALSE]
\* a well-formed animation of 40 frames
GifA == [name |-> "a.gif", type |-> "image/gif", ext |-> ".gif",
         width |-> 1, height |-> 1, frameCount |-> 40,
         decodes |-> TRUE, parses |-> TRUE]
\* a file named .gif that GifReader rejects
GifBad == [name |-> "bad.gif", type |-> "image/gif", ext |-> ".gif",
           width |-> 0, height |-> 0, frameCount |-> 0,
           decodes |-> FALSE, parses |-> FALSE]
\* a well-formed container without any frame
GifEmpty == [name |-> "empty.gif", type |-> "image/gif", ext |-> ".gif",
             width |-> 1, height |-> 1, frameCount |-> 0,
             decodes |-> FALSE, parses |-> FALSE]
\* not an image
Txt == [name |-> "notes.txt", type |-> "text/plain", ext |-> ".txt",
        width |-> 0, height |-> 0, frameCount |-> 0,
        decodes |-> FALSE, parses |-> FALSE]

Files == {PngA, PngBad, GifA, GifBad, GifEmpty, Txt}

PixelSizes == {4, 12}
Resolutions == {40, 128}
PaletteIds == {"gameboy", "nes"}

(***************************************************************************)
(* The state as one record, so that a handler and the effects that follow  *)
(* its render compose as functions.                                        *)
(***************************************************************************)
State ==
    [pixelSize |-> pixelSize, resolution |-> resolution, paletteId |-> paletteId,
     sourceName |-> sourceName, sourcePreview |-> sourcePreview,
     resultPreview |-> resultPreview, status |-> status,
     vectorData |-> vectorData, outputFormat |-> outputFormat,
     isProcessing |-> isProcessing, sourceGif |-> sourceGif,
     isGifParsing |-> isGifParsing, jobRef |-> jobRef,
     previewReads |-> previewReads, gifParses |-> gifParses, images |-> images,
     revokedUrls |-> revokedUrls, accepted |-> accepted]

Commit(s) ==
    /\ pixelSize' = s.pixelSize
    /\ resolution' = s.resolution
    /\ paletteId' = s.paletteId
    /\ sourceName' = s.sourceName
    /\ sourcePreview' = s.sourcePreview
    /\ resultPreview' = s.resultPreview
    /\ status' = s.status
    /\ vectorData' = s.vectorData
    /\ outputFormat' = s.outputFormat
    /\ isProcessing' = s.isProcessing
    /\ sourceGif' = s.sourceGif
    /\ isGifParsing' = s.isGifParsing
    /\ jobRef' = s.jobRef
    /\ previewReads' = s.previewReads
    /\ gifParses' = s.gifParses
    /\ images' = s.images
    /\ revokedUrls' = s.revokedUrls
    /\ accepted' = s.accepted

(***************************************************************************)
(* Size-budget solver and sample-grid dimensions.                          *)
(***************************************************************************)
\* Math.floor(Math.sqrt(num / den)) for integers num >= 0, den >= 1: the
\* largest m with m * m <= num / den, that is with m * m <= num \div den,
\* found by bisection on [lo, hi).
RECURSIVE FloorSqrtQuotient(_, _, _, _)
FloorSqrtQuotient(num, den, lo, hi) ==
    IF hi - lo <= 1 THEN lo
    ELSE LET mid == (lo + hi) \div 2
         IN  IF mid * mid <= num \div den
             THEN FloorSqrtQuotient(num, den, mid, hi)
             ELSE FloorSqrtQuotient(num, den, lo, mid)

\* App.tsx:1251-1259
MaxPixelSize(frameArea, frameCount) ==
    FloorSqrtQuotient(MAX_GIF_PIXELS, Max(frameArea * frameCount, 1),
                      0, 2001)

\* the solver without the cap at the requested size
getSafeGifPixelSizeUncapped(sampleWidth, sampleHeight, frameCount, desiredPixelSize) ==
    Max(1, MaxPixelSize(sampleWidth * sampleHeight, frameCount))

\* App.tsx:1237-1270
getSafeGifPixelSize(sampleWidth, sampleHeight, frameCount, desiredPixelSize) ==
    LET frameArea == sampleWidth * sampleHeight
    IN  IF frameArea <= 0 \/ frameCount <= 0
        THEN Max(1, desiredPixelSize)
        ELSE LET maxPixelSize == MaxPixelSize(frameArea, frameCount)
             IN  IF maxPixelSize <= 0
                 THEN 1
                 ELSE Max(1, Min(desiredPixelSize, maxPixelSize))

\* Math.round(n / d) for n >= 0, d >= 1 (halves round up)
RoundQuotient(n, d) == (2 * n + d) \div (2 * d)

\* Math.max(8, resolution)
SampleWidth(res) == Max(8, res)

\* Math.max(8, Math.round(sampleWidth * (height / width || 1)))
SampleHeight(sampleWidth, width, height) ==
    IF width = 0 \/ height = 0
    THEN Max(8, sampleWidth)
    ELSE Max(8, RoundQuotient(sampleWidth * height, width))

(***************************************************************************)
(* convertImage and its helpers, as functions of the state record s.  env  *)
(* is the environment's answer where the code depends on it: whether the   *)
(* canvas / encoder calls of the job succeed.                              *)
(***************************************************************************)
\* describeError: "", the message of an Error, or the JSON text of the value
describeError(error) ==
    IF error = Null THEN ""
    ELSE IF "message" \in DOMAIN error THEN error.message
    ELSE "{\"isTrusted\":true}"

\* a job-id test that lets every completion through
IsCurrentJobAlways(current, jobId) == TRUE

\* jobRef.current !== jobId, negated (App.tsx:381, 416, 607)
IsCurrentJob(current, jobId) == current = jobId

IsBlobUrl(url) == url # Null /\ url.kind = "blob"

\* a fail that reports the error and leaves the processing flag set
failKeepsBusy(s, jobId, message, error) ==
    IF ~IsCurrentJob(s.jobRef, jobId) THEN s
    ELSE LET detail == describeError(error)
         IN  [s EXCEPT !.status = IF detail # "" THEN message \o ": " \o detail
                                  ELSE message]

\* convertImage.fail (App.tsx:377-391)
fail(s, jobId, message, error) ==
    IF ~IsCurrentJob(s.jobRef, jobId) THEN s
    ELSE LET detail == describeError(error)
         IN  [s EXCEPT !.status = IF detail # "" THEN message \o ": " \o detail
                                  ELSE message,
                       !.isProcessing = FALSE]

\* closure is the render whose convertImage created the job: finalize stores
\* that render's pixelSize (App.tsx:434)
finalize(s, jobId, closure, previewUrl, vector, nextStatus) ==
    IF ~IsCurrentJob(s.jobRef, jobId)
    THEN IF IsBlobUrl(previewUrl)
         THEN [s EXCEPT !.revokedUrls = @ \cup {previewUrl}]
         ELSE s
    ELSE [s EXCEPT !.resultPreview = previewUrl,
                   !.vectorData = IF vector # Null
                                  THEN [colors |-> vector.colors,
                                        width |-> vector.width,
                                        height |-> vector.height,
                                        pixelSize |-> closure.pixelSize]
                                  ELSE @,
                   !.status = nextStatus,
                   !.isProcessing = FALSE]

\* an animated branch that commits without ever reporting a reduction
ConvertGifSilent(s, jobId, env) ==
    LET gif == s.sourceGif
        frameCount == gif.frameCount
        sampleWidth == SampleWidth(s.resolution)
        sampleHeight == SampleHeight(sampleWidth, gif.width, gif.height)
        safePixelSize == getSafeGifPixelSize(sampleWidth, sampleHeight,
                                             frameCount, s.pixelSize)
        gifUrl == [kind |-> "blob", job |-> jobId, source |-> gif.name,
                   pixelSize |-> safePixelSize, resolution |-> s.resolution,
                   paletteId |-> s.paletteId]
        firstVector == [colors |-> [source |-> gif.name, frame |-> 0,
                                    paletteId |-> s.paletteId],
                        width |-> sampleWidth, height |-> sampleHeight]
    IN  IF frameCount = 0
        THEN fail(s, jobId, "GIF processing failed",
                  [message |-> "GIF contains no valid frames."])
        ELSE IF ~env
        THEN fail(s, jobId, "GIF processing failed",
                  [message |-> "Color grid is empty."])
        ELSE finalize(s, jobId, s, gifUrl, firstVector, "")

\* the animated branch of convertImage (App.tsx:441-595)
ConvertGif(s, jobId, env) ==
    LET gif == s.sourceGif
        frameCount == gif.frameCount
        sampleWidth == SampleWidth(s.resolution)
        sampleHeight == SampleHeight(sampleWidth, gif.width, gif.height)
        safePixelSize == getSafeGifPixelSize(sampleWidth, sampleHeight,
                                             frameCount, s.pixelSize)
        gifUrl == [kind |-> "blob", job |-> jobId, source |-> gif.name,
                   pixelSize |-> safePixelSize, resolution |-> s.resolution,
                   paletteId |-> s.paletteId]
        firstVector == [colors |-> [source |-> gif.name, frame |-> 0,
                                    paletteId |-> s.paletteId],
                        width |-> sampleWidth, height |-> sampleHeight]
    IN  IF frameCount = 0
        THEN fail(s, jobId, "GIF processing failed",
                  [message |-> "GIF contains no valid frames."])
        ELSE IF ~env
        THEN fail(s, jobId, "GIF processing failed",
                  [message |-> "Color grid is empty."])
        ELSE finalize(s, jobId, s, gifUrl, firstVector,
                      IF safePixelSize < s.pixelSize
                      THEN "GIF output is large; pixel size was reduced automatically."
                      ELSE "")

\* convertImage (App.tsx:349-704)
convertImage(s, jobId, env) ==
    IF s.outputFormat = "image/gif" /\ s.sourceGif = Null
    THEN IF s.isGifParsing
         THEN [s EXCEPT !.status = "Parsing GIF..."]
         ELSE fail(s, jobId, "GIF data is not available.", Null)
    ELSE IF s.outputFormat = "image/gif" /\ s.sourceGif # Null
    THEN ConvertGif(s, jobId, env)
    ELSE IF s.sourcePreview = Null
    THEN fail(s, jobId, "Please upload an image first.", Null)
    ELSE [s EXCEPT !.images = @ \cup
            {[job |-> jobId, src |-> s.sourcePreview.dataUrl,
              pixelSize |-> s.pixelSize, resolution |-> s.resolution,
              paletteId |-> s.paletteId, epoch |-> s.accepted]}]

\* rebuild (App.tsx:706-720)
rebuild(s, env) ==
    IF s.sourcePreview = Null /\ s.sourceGif = Null
    THEN [s EXCEPT !.status = "Please upload an image first."]
    ELSE LET jobId == s.jobRef + 1
         IN  convertImage([s EXCEPT !.jobRef = jobId,
                                    !.isProcessing = TRUE,
                                    !.status = "Building pixel preview...",
                                    !.vectorData = Null,
                                    !.resultPreview = Null],
                          jobId, env)

\* the conversion effect (App.tsx:722-744)
ConversionEffect(s, env) ==
    IF s.outputFormat = "image/gif" /\ (s.isGifParsing \/ s.sourceGif = Null)
    THEN IF s.isGifParsing THEN [s EXCEPT !.status = "Parsing GIF..."] ELSE s
    ELSE IF s.sourcePreview = Null /\ s.sourceGif = Null
    THEN [s EXCEPT !.resultPreview = Null, !.vectorData = Null]
    ELSE rebuild(s, env)

\* the effect's dependency list changed between two renders: rebuild changes
\* with convertImage, which changes with the values listed at App.tsx:695-703
DepsChanged(a, b) ==
    \/ a.outputFormat # b.outputFormat
    \/ a.paletteId # b.paletteId
    \/ a.pixelSize # b.pixelSize
    \/ a.resolution # b.resolution
    \/ a.sourceGif # b.sourceGif
    \/ a.sourcePreview # b.sourcePreview
    \/ a.isGifParsing # b.isGifParsing

\* a cleanup that revokes nothing
CleanupEffectSkipped(a, b) == b

\* the cleanup of the resultPreview effect (App.tsx:746-757), run when a render
\* shows a resultPreview other than the one of the render before
CleanupEffect(a, b) ==
    IF a.resultPreview # b.resultPreview /\ IsBlobUrl(a.resultPreview)
    THEN [b EXCEPT !.revokedUrls = @ \cup {a.resultPreview}]
    ELSE b

\* A handler took the rendered state pre to mid; React renders mid, runs the
\* effects whose dependencies changed, and renders what they set.
Rendered(pre, mid, env) ==
    LET shown == CleanupEffect(pre, mid)
    IN  IF DepsChanged(pre, shown)
        THEN CleanupEffect(shown, ConversionEffect(shown, env))
        ELSE shown

(***************************************************************************)
(* Handlers.  Each action is one handler run to completion, the render it  *)
(* causes and the effects of that render.                                  *)
(***************************************************************************)
\* a type test that accepts every file
IsImageTypeAny(file) == TRUE

\* file.type.startsWith("image")
IsImageType(file) == file.type \in {"image/png", "image/gif"}

\* file.type === "image/gif" || lowerName.endsWith(".gif")
IsGifFile(file) == file.type = "image/gif" \/ file.ext = ".gif"

\* previewReader.result: the data URL of the file's bytes
DataUrl(file) == [dataUrl |-> file.name]

FileNamed(name) == CHOOSE f \in Files : f.name = name

\* extractGifSource's return value for a file it accepts
ParsedGif(upload, file) ==
    [name |-> file.name, upload |-> upload, width |-> file.width,
     height |-> file.height, frameCount |-> file.frameCount]

\* what extractGifSource throws for a file it does not accept: its own error
\* for a container without frames (App.tsx:1414-1416), GifReader's otherwise
ParseError(file) ==
    IF file.name = "empty.gif"
    THEN [message |-> "GIF contains no frames"]
    ELSE [message |-> "Invalid GIF 87a/89a header."]

\* handleFile (App.tsx:269-336)
handleFile(s, upload, file) ==
    IF ~IsImageType(file)
    THEN [s EXCEPT !.status = "Please upload an image file."]
    ELSE LET isGif == IsGifFile(file)
             read == [upload |-> upload, file |-> file]
         IN  [s EXCEPT !.status = "",
                       !.sourceName = file.name,
                       !.sourcePreview = Null,
                       !.resultPreview = Null,
                       !.vectorData = Null,
                       !.sourceGif = Null,
                       !.outputFormat = IF isGif THEN "image/gif" ELSE "image/png",
                       !.previewReads = @ \cup {read},
                       !.isGifParsing = isGif,
                       !.gifParses = IF isGif THEN @ \cup {read} ELSE @,
                       !.accepted = @ + 1]

\* previewReader.onload (App.tsx:295-299)
previewOnload(s, read) ==
    [s EXCEPT !.sourcePreview = DataUrl(read.file),
              !.previewReads = @ \ {read}]

\* the then / catch / finally chain on file.arrayBuffer() (App.tsx:304-330);
\* its callbacks run as consecutive microtasks, before React renders
gifParseSettled(s, read) ==
    IF read.file.parses
    THEN [s EXCEPT !.sourceGif = ParsedGif(read.upload, read.file),
                   !.status = "",
                   !.isGifParsing = FALSE,
                   !.gifParses = @ \ {read}]
    ELSE [s EXCEPT !.status = "Failed to parse GIF.",
                   !.outputFormat = "image/png",
                   !.sourceGif = Null,
                   !.isGifParsing = FALSE,
                   !.gifParses = @ \ {read}]

\* image.onload (App.tsx:606-686); canvasOk: getContext("2d") returned a context
imageOnload(s, img, canvasOk) ==
    LET t == [s EXCEPT !.images = @ \ {img}]
        file == FileNamed(img.src)
        sampleWidth == SampleWidth(img.resolution)
        sampleHeight == SampleHeight(sampleWidth, file.width, file.height)
        previewUrl == [kind |-> "data", job |-> img.job, source |-> img.src,
                       pixelSize |-> img.pixelSize, resolution |-> img.resolution,
                       paletteId |-> img.paletteId]
        vector == [colors |-> [source |-> img.src, frame |-> 0,
                               paletteId |-> img.paletteId],
                   width |-> sampleWidth, height |-> sampleHeight]
    IN  IF ~IsCurrentJob(s.jobRef, img.job) THEN t
        ELSE IF ~canvasOk
        THEN fail(t, img.job, "Failed to generate pixel art.",
                  [message |-> "Unable to create a sample canvas."])
        ELSE finalize(t, img.job, img, previewUrl, vector, "")

\* image.onerror (App.tsx:687-692)
imageOnerror(s, img) ==
    fail([s EXCEPT !.images = @ \ {img}], img.job, "Image failed to load.",
         [isTrusted |-> TRUE])

\* In the actions, env is the environment's answer to the canvas and encoder
\* calls of a job the handler's render starts (FALSE: one of them fails).
HandleFile(file) ==
    /\ Commit(Rendered(State, handleFile(State, accepted + 1, file), TRUE))
    /\ triggers' = triggers + 1
    /\ last' = "handleFile"
    /\ UNCHANGED callVars

PreviewOnload(read, env) ==
    /\ read \in previewReads
    /\ Commit(Rendered(State, previewOnload(State, read), env))
    /\ last' = "previewReader.onload"
    /\ UNCHANGED callVars
    /\ UNCHANGED triggers

GifParseSettled(read, env) ==
    /\ read \in gifParses
    /\ Commit(Rendered(State, gifParseSettled(State, read), env))
    /\ last' = "gifParse"
    /\ UNCHANGED callVars
    /\ UNCHANGED triggers

\* the browser decoded the data URL
ImageOnload(img, canvasOk) ==
    /\ img \in images
    /\ FileNamed(img.src).decodes
    /\ Commit(Rendered(State, imageOnload(State, img, canvasOk), TRUE))
    /\ last' = IF img.job = jobRef THEN "image.onload"
               ELSE "image.onload (stale)"
    /\ UNCHANGED callVars
    /\ UNCHANGED triggers

\* the browser could not decode the data URL
ImageOnerror(img) ==
    /\ img \in images
    /\ ~FileNamed(img.src).decodes
    /\ Commit(Rendered(State, imageOnerror(State, img), TRUE))
    /\ last' = IF img.job = jobRef THEN "image.onerror"
               ELSE "image.onerror (stale)"
    /\ UNCHANGED callVars
    /\ UNCHANGED triggers

SetPixelSize(v, env) ==
    /\ v # pixelSize
    /\ Commit(Rendered(State, [State EXCEPT !.pixelSize = v], env))
    /\ triggers' = triggers + 1
    /\ last' = "setPixelSize"
    /\ UNCHANGED callVars

SetResolution(v, env) ==
    /\ v # resolution
    /\ Commit(Rendered(State, [State EXCEPT !.resolution = v], env))
    /\ triggers' = triggers + 1
    /\ last' = "setResolution"
    /\ UNCHANGED callVars

SetPaletteId(v, env) ==
    /\ v # paletteId
    /\ Commit(Rendered(State, [State EXCEPT !.paletteId = v], env))
    /\ triggers' = triggers + 1
    /\ last' = "setPaletteId"
    /\ UNCHANGED callVars

AppInit ==
    /\ pixelSize = 12
    /\ resolution = 128
    /\ paletteId = "gameboy"
    /\ sourceName = ""
    /\ sourcePreview = Null
    /\ resultPreview = Null
    /\ status = ""
    /\ vectorData = Null
    /\ outputFormat = "image/png"
    /\ isProcessing = FALSE
    /\ sourceGif = Null
    /\ isGifParsing = FALSE
    /\ jobRef = 0
    /\ previewReads = {}
    /\ gifParses = {}
    /\ images = {}
    /\ revokedUrls = {}
    /\ accepted = 0
    /\ triggers = 0
    /\ last = "mount"

AppNext ==
    \/ \E file \in Files : triggers < MaxTriggers /\ HandleFile(file)
    \/ \E read \in previewReads, env \in BOOLEAN : PreviewOnload(read, env)
    \/ \E read \in gifParses, env \in BOOLEAN : GifParseSettled(read, env)
    \/ \E img \in images, canvasOk \in BOOLEAN : ImageOnload(img, canvasOk)
    \/ \E img \in images : ImageOnerror(img)
    \/ \E v \in PixelSizes, env \in BOOLEAN :
          triggers < MaxTriggers /\ SetPixelSize(v, env)
    \/ \E v \in Resolutions, env \in BOOLEAN :
          triggers < MaxTriggers /\ SetResolution(v, env)
    \/ \E v \in PaletteIds, env \in BOOLEAN :
          triggers < MaxTriggers /\ SetPaletteId(v, env)

\* one still image is uploaded, then only the controls are used
StillNext ==
    \/ accepted = 0 /\ HandleFile(PngA)
    \/ \E read \in previewReads : PreviewOnload(read, TRUE)
    \/ \E img \in images, canvasOk \in BOOLEAN : ImageOnload(img, canvasOk)
    \/ \E v \in PixelSizes :
          triggers < 1 + MaxStillChanges /\ SetPixelSize(v, TRUE)
    \/ \E v \in Resolutions :
          triggers < 1 + MaxStillChanges /\ SetResolution(v, TRUE)
    \/ \E v \in PaletteIds :
          triggers < 1 + MaxStillChanges /\ SetPaletteId(v, TRUE)

\* one animation is uploaded, then only the controls are used
AnimatedNext ==
    \/ accepted = 0 /\ HandleFile(GifA)
    \/ \E read \in previewReads, env \in BOOLEAN : PreviewOnload(read, env)
    \/ \E read \in gifParses, env \in BOOLEAN : GifParseSettled(read, env)
    \/ \E v \in PixelSizes, env \in BOOLEAN :
          triggers < 1 + MaxGifChanges /\ SetPixelSize(v, env)
    \/ \E v \in Resolutions, env \in BOOLEAN :
          triggers < 1 + MaxGifChanges /\ SetResolution(v, env)
    \/ \E v \in PaletteIds, env \in BOOLEAN :
          triggers < 1 + MaxGifChanges /\ SetPaletteId(v, env)

\* no pipeline function is being followed
CallIdle == pc = "idle" /\ args = <<>> /\ locals = <<>> /\ ret = <<>>

\* the App is mounted and untouched
AppIdle == UNCHANGED appVars

vars == <<appVars, callVars>>

Init == AppInit /\ CallIdle

Next == AppNext

Spec == Init /\ [][Next]_vars

SpecStill == Init /\ [][StillNext]_vars

SpecAnimated == Init /\ [][AnimatedNext]_vars

(***************************************************************************)
(* Job supersession.                                                       *)
(***************************************************************************)
\* the displayed result, if any, was produced by the latest job from the
\* current source and the current parameters
DisplayedIsLatest ==
    resultPreview # Null =>
        /\ resultPreview.job = jobRef
        /\ sourcePreview # Null
        /\ resultPreview.source = sourcePreview.dataUrl
        /\ resultPreview.pixelSize = pixelSize
        /\ resultPreview.resolution = resolution
        /\ resultPreview.paletteId = paletteId

C2_LastUploadWins ==
    (accepted >= 1 /\ previewReads = {} /\ gifParses = {}) =>
        LET latest == FileNamed(sourceName)
        IN  /\ sourcePreview # Null => sourcePreview = DataUrl(latest)
            /\ sourceGif # Null => sourceGif.name = sourceName
            /\ outputFormat = IF IsGifFile(latest) /\ latest.parses
                              THEN "image/gif" ELSE "image/png"
            /\ resultPreview # Null => resultPreview.source = sourceName

\* C3: the completion of a conversion job that was started for another,
\* earlier source than the file handleFile accepted last sets neither
\* resultPreview nor vectorData.
C3_UploadSupersedesJobs ==
    [][\A img \in images : \A canvasOk \in BOOLEAN :
          (/\ img.epoch < accepted
           /\ img.src # sourceName
           /\ ImageOnload(img, canvasOk)) =>
              UNCHANGED <<resultPreview, vectorData>>]_vars

\* C14: when the parse of an uploaded GIF fails, afterwards the output format
\* is image/png, sourceGif is null, isGifParsing is false and the status is the
\* failure message followed by the detail text of the error.
C14_DecodeFailure ==
    [][\A read \in gifParses :
          (/\ ~read.file.parses
           /\ last' = "gifParse"
           /\ gifParses' = gifParses \ {read})
              => /\ outputFormat' = "image/png"
                 /\ sourceGif' = Null
                 /\ isGifParsing' = FALSE
                 /\ status' = "Failed to parse GIF.: "
                                  \o describeError(ParseError(read.file))]_vars

\* C15: a step in which a job is triggered and fails at encode time, so that
\* it settles without committing an artifact of its own, leaves resultPreview
\* and vectorData as they were displayed before the job was triggered.
C15_FailedEncodeKeepsResult ==
    [][(/\ jobRef' = jobRef + 1
        /\ ~isProcessing'
        /\ (resultPreview' = Null \/ resultPreview'.job # jobRef'))
           => UNCHANGED <<resultPreview, vectorData>>]_vars

\* no file read, GIF parse or image decode is still to be delivered
NothingPending == previewReads = {} /\ gifParses = {} /\ images = {}

\* C16: in every reachable state in which no asynchronous completion (file
\* read, GIF parse, image decode) is pending, isProcessing is false.
C16_NoPerpetualBusy == NothingPending => ~isProcessing

\* the latest job took a failure path (its image did not load, or its canvas
\* could not be created) and nothing is pending
C16_Witness ==
    /\ NothingPending
    /\ jobRef >= 1
    /\ last \in {"image.onerror", "image.onload"}
    /\ resultPreview = Null
    /\ status \in {"Image failed to load.: {\"isTrusted\":true}",
                   "Failed to generate pixel art.: Unable to create a sample canvas."}

\* C17: handleFile called with a file whose type is not an image sets the
\* status to the report of the problem and nothing else: the job id,
\* sourceName, sourcePreview, sourceGif, outputFormat, isGifParsing,
\* resultPreview, vectorData and isProcessing are unchanged, and no file read,
\* GIF parse or image decode is started.
C17_UnsupportedUpload ==
    [][\A file \in Files :
          (file.type \notin {"image/png", "image/gif"} /\ HandleFile(file))
              => /\ status' = "Please upload an image file."
                 /\ UNCHANGED <<jobRef, sourceName, sourcePreview, sourceGif,
                                outputFormat, isGifParsing, resultPreview,
                                vectorData, isProcessing, previewReads,
                                gifParses, images, accepted>>]_vars

\* a file that is not an image was dropped while a result was displayed
C17_Witness ==
    /\ last = "handleFile"
    /\ status = "Please upload an image file."
    /\ resultPreview # Null
    /\ vectorData # Null
    /\ sourceName # ""

\* the solver's answer for the loaded animation is strictly smaller than the
\* requested pixelSize (App.tsx:466-472, 580-582)
Reduced ==
    LET sampleWidth == SampleWidth(resolution)
        sampleHeight == SampleHeight(sampleWidth, sourceGif.width,
                                     sourceGif.height)
    IN  getSafeGifPixelSize(sampleWidth, sampleHeight, sourceGif.frameCount,
                            pixelSize) < pixelSize

\* the step is a handler whose render starts an animated job, and the canvas
\* and encoder calls of that job succeed
AnimatedJobEncodes ==
    /\ \/ \E read \in previewReads : PreviewOnload(read, TRUE)
       \/ \E read \in gifParses : GifParseSettled(read, TRUE)
       \/ \E v \in PixelSizes : SetPixelSize(v, TRUE)
       \/ \E v \in Resolutions : SetResolution(v, TRUE)
       \/ \E v \in PaletteIds : SetPaletteId(v, TRUE)
    /\ jobRef' = jobRef + 1
    /\ outputFormat' = "image/gif"

\* C18: an animated job whose encode succeeds commits its artifact whether or
\* not the solver reduced the block size; its status is the non-empty note
\* that the pixel size was reduced when the solver's result is strictly
\* smaller than the requested size, and empty when it is not.
C18_BudgetDowngrade ==
    [][AnimatedJobEncodes =>
          /\ resultPreview' # Null
          /\ resultPreview'.kind = "blob"
          /\ resultPreview'.job = jobRef'
          /\ vectorData' # Null
          /\ ~isProcessing'
          /\ status' = IF Reduced'
                       THEN "GIF output is large; pixel size was reduced automatically."
                       ELSE ""]_vars

\* a committed animated job whose block size the solver reduced
C18_Witness ==
    /\ resultPreview # Null
    /\ resultPreview.kind = "blob"
    /\ resultPreview.job = jobRef
    /\ resultPreview.pixelSize < pixelSize
    /\ status # ""
    /\ ~isProcessing

\* a committed animated job at the requested block size
C18_Unreduced ==
    /\ resultPreview # Null
    /\ resultPreview.kind = "blob"
    /\ resultPreview.job = jobRef
    /\ resultPreview.pixelSize = pixelSize
    /\ status = ""
    /\ ~isProcessing

\* C21: the step in which the parse of an uploaded GIF fails reports the
\* failure and starts no job, and from a state that reports the failure every
\* step that is not a new upload or a parameter change leaves the status, the
\* job id and the displayed result as they are.
C21_DecodeFailureStays ==
    [][/\ (\A read \in gifParses :
              (/\ ~read.file.parses
               /\ last' = "gifParse"
               /\ gifParses' = gifParses \ {read})
                  => /\ status' = "Failed to parse GIF."
                     /\ jobRef' = jobRef)
       /\ (status = "Failed to parse GIF." /\ triggers' = triggers)
              => UNCHANGED <<status, jobRef, resultPreview, vectorData>>]_vars

\* the parse of the file uploaded last, a GIF, has not settled
LatestParsePending == \E read \in gifParses : read.upload = accepted

\* C22: while the parse of the most recently uploaded GIF is pending,
\* isGifParsing is true and, when the output format is image/gif and there is
\* no decoded source, the status is "Parsing GIF..." and no step that ends in
\* such a state has allocated a job.
C22_ParsingState ==
    /\ [](LatestParsePending =>
             /\ isGifParsing
             /\ (outputFormat = "image/gif" /\ sourceGif = Null)
                    => status = "Parsing GIF...")
    /\ [][(/\ LatestParsePending'
           /\ outputFormat' = "image/gif"
           /\ sourceGif' = Null) => jobRef' = jobRef]_vars

\* C27: whenever a result is displayed, the pixelSize stored in vectorData is
\* the block size the displayed raster was built with, and the stored grid is
\* the quantized grid of the first frame of the raster's source under the
\* raster's palette, at the raster's sample width.
C27_VectorMatchesRaster ==
    (resultPreview # Null /\ vectorData # Null) =>
        /\ vectorData.pixelSize = resultPreview.pixelSize
        /\ vectorData.colors = [source |-> resultPreview.source, frame |-> 0,
                                paletteId |-> resultPreview.paletteId]
        /\ vectorData.width = SampleWidth(resultPreview.resolution)

\* handleDownloadRaster (App.tsx:759-769): the extension of the file name it
\* gives the download of resultPreview
RasterExtension == IF outputFormat = "image/gif" THEN "gif" ELSE "png"

\* C28: whenever resultPreview is non-null, the raster download's extension
\* is gif exactly when resultPreview is the blob URL of an encoded GIF, and
\* png exactly when it is the data URL of a PNG.
C28_DownloadFormat ==
    resultPreview # Null =>
        RasterExtension = IF resultPreview.kind = "blob" THEN "gif" ELSE "png"

\* C29: a blob URL is never revoked while it is the displayed resultPreview,
\* and a step after which a blob URL is no longer the displayed resultPreview
\* has revoked it; so every blob URL that was ever displayed, except the one
\* displayed now, is revoked.
C29_ResultHandleLifecycle ==
    /\ [](IsBlobUrl(resultPreview) => resultPreview \notin revokedUrls)
    /\ [][(IsBlobUrl(resultPreview) /\ resultPreview' # resultPreview)
             => resultPreview \in revokedUrls']_vars
    /\ [][revokedUrls \subseteq revokedUrls']_vars

\* the GIF of a newer job is displayed, not revoked, and the GIF of the job
\* before it has been revoked
C29_Witness ==
    /\ IsBlobUrl(resultPreview)
    /\ resultPreview \notin revokedUrls
    /\ \E url \in revokedUrls : url.kind = "blob" /\ url.job < resultPreview.job

(***************************************************************************)
(* getSafeGifPixelSize, called once on arguments drawn from the values the *)
(* animated branch of convertImage can pass.                               *)
(***************************************************************************)
\* the largest value of the Pixel slider (App.tsx:873)
PixelSliderMax == 28

BudgetWidths == {1, 8, 40, 64, 128, 256, 384}
BudgetHeights == {1, 8, 40, 100, 128, 384, 768}
BudgetFrameCounts == {1, 2, 5, 28, 40, 62, 245, 1000}
BudgetSizes == 1 .. PixelSliderMax

BudgetArgs ==
    [sampleWidth : BudgetWidths, sampleHeight : BudgetHeights,
     frameCount : BudgetFrameCounts, desiredPixelSize : BudgetSizes]

BudgetInit ==
    /\ AppInit
    /\ pc = "getSafeGifPixelSize"
    /\ args \in BudgetArgs
    /\ locals = <<>>
    /\ ret = 0

CallGetSafeGifPixelSize ==
    /\ pc = "getSafeGifPixelSize"
    /\ ret' = getSafeGifPixelSize(args.sampleWidth, args.sampleHeight,
                                  args.frameCount, args.desiredPixelSize)
    /\ pc' = "returned"
    /\ UNCHANGED <<args, locals>>
    /\ AppIdle

BudgetNext == CallGetSafeGifPixelSize

SpecBudget == BudgetInit /\ [][BudgetNext]_vars

\* C4: with k the solver's result, the animated encode's decoded pixel count
\* (sampleWidth * k) * (sampleHeight * k) * frameCount is at most 4,000,000.
C4_PixelBudget ==
    pc = "returned" =>
        (args.sampleWidth * ret) * (args.sampleHeight * ret)
            <= MAX_GIF_PIXELS \div args.frameCount

\* C5: for a fixed requested size the solver's result does not grow when the
\* frame count grows or when the frame area grows, and it never exceeds the
\* requested size.
C5_BudgetMonotone ==
    pc = "returned" =>
        /\ ret <= args.desiredPixelSize
        /\ \A n \in BudgetFrameCounts :
              n >= args.frameCount =>
                  getSafeGifPixelSize(args.sampleWidth, args.sampleHeight, n,
                                      args.desiredPixelSize) <= ret
        /\ \A w \in BudgetWidths, h \in BudgetHeights :
              w * h >= args.sampleWidth * args.sampleHeight =>
                  getSafeGifPixelSize(w, h, args.frameCount,
                                      args.desiredPixelSize) <= ret

\* the solver reduced the requested size, and reduces it further for a longer
\* animation and for a larger frame
C5_Witness ==
    /\ pc = "returned"
    /\ 1 < ret
    /\ ret < args.desiredPixelSize
    /\ \E n \in BudgetFrameCounts :
          getSafeGifPixelSize(args.sampleWidth, args.sampleHeight, n,
                              args.desiredPixelSize) < ret
    /\ \E w \in BudgetWidths, h \in BudgetHeights :
          getSafeGifPixelSize(w, h, args.frameCount,
                              args.desiredPixelSize) < ret

(***************************************************************************)
(* Palette entries and the two quantizers.  A hex colour is the sequence   *)
(* of its characters, so that case and digits are modelled by what         *)
(* toLowerCase and hexToRgb do to them.                                    *)
(***************************************************************************)
HexDigits ==
    <<"0", "1", "2", "3", "4", "5", "6", "7",
      "8", "9", "a", "b", "c", "d", "e", "f">>

\* String.prototype.toLowerCase on one character of a hex colour
LowerChar(c) ==
    CASE c = "A" -> "a" [] c = "B" -> "b" [] c = "C" -> "c"
      [] c = "D" -> "d" [] c = "E" -> "e" [] c = "F" -> "f"
      [] OTHER -> c

toLowerCase(hex) == [i \in DOMAIN hex |-> LowerChar(hex[i])]

DigitValue(c) == (CHOOSE i \in DOMAIN HexDigits : HexDigits[i] = LowerChar(c)) - 1

\* hexToRgb of @/lib/utils: "#rrggbb" to its three channel values
hexToRgb(hex) ==
    [r |-> 16 * DigitValue(hex[2]) + DigitValue(hex[3]),
     g |-> 16 * DigitValue(hex[4]) + DigitValue(hex[5]),
     b |-> 16 * DigitValue(hex[6]) + DigitValue(hex[7])]

\* App.tsx:257-264
PaletteData(colors) ==
    [i \in DOMAIN colors |-> [hex |-> colors[i], rgb |-> hexToRgb(colors[i])]]

\* Number.MAX_VALUE; every distance is at most 3 * 255^2 = 195075, so the
\* largest integer of the checker stands for it
NumberMaxValue == 2147483647

Distance(rgb, r, g, b) ==
    (rgb.r - r) * (rgb.r - r) + (rgb.g - g) * (rgb.g - g)
        + (rgb.b - b) * (rgb.b - b)

\* the palette loop with "distance <= best": the last entry wins a tie
RECURSIVE ClosestEntryLastWins(_, _, _, _, _, _, _)
ClosestEntryLastWins(paletteData, i, r, g, b, closest, best) ==
    IF i > Len(paletteData) THEN closest
    ELSE LET entry == paletteData[i]
             distance == Distance(entry.rgb, r, g, b)
         IN  IF distance <= best
             THEN ClosestEntryLastWins(paletteData, i + 1, r, g, b, entry, distance)
             ELSE ClosestEntryLastWins(paletteData, i + 1, r, g, b, closest, best)

\* App.tsx:1095-1107 and 1208-1220: the loop over paletteData from entry i on
RECURSIVE ClosestEntry(_, _, _, _, _, _, _)
ClosestEntry(paletteData, i, r, g, b, closest, best) ==
    IF i > Len(paletteData) THEN closest
    ELSE LET entry == paletteData[i]
             distance == Distance(entry.rgb, r, g, b)
         IN  IF distance < best
             THEN ClosestEntry(paletteData, i + 1, r, g, b, entry, distance)
             ELSE ClosestEntry(paletteData, i + 1, r, g, b, closest, best)

\* App.tsx:1183-1200: clamp(Math.floor(((coord + 0.5) / sampleDim) * sourceDim),
\* sourceDim).  The quotient is computed exactly; on the dimensions used here
\* the double-precision result is the same.
SourceCoord(coord, sampleDim, sourceDim) ==
    Min(sourceDim - 1,
        Max(0, ((2 * coord + 1) * sourceDim) \div (2 * sampleDim)))

\* App.tsx:1164-1225.  Byte k of a Uint8ClampedArray is element k + 1 of the
\* sequence; row y and column x of the grid are elements y + 1 and x + 1.
quantizeFramePixels(framePixels, sourceWidth, sourceHeight, sampleWidth, sampleHeight, paletteData) ==
    [row \in 1 .. sampleHeight |->
        [col \in 1 .. sampleWidth |->
            LET sourceY == SourceCoord(row - 1, sampleHeight, sourceHeight)
                sourceX == SourceCoord(col - 1, sampleWidth, sourceWidth)
                index == (sourceY * sourceWidth + sourceX) * 4
                r == framePixels[index + 1]
                g == framePixels[index + 2]
                b == framePixels[index + 3]
            IN  ClosestEntry(paletteData, 1, r, g, b,
                             paletteData[1], NumberMaxValue).hex]]

\* the canvas read column by column
CanvasEntryColumnMajor(sampleCanvas, x, y, paletteData) ==
    LET index == (x * sampleCanvas.height + y) * 4
    IN  ClosestEntry(paletteData, 1, sampleCanvas.data[index + 1],
                     sampleCanvas.data[index + 2], sampleCanvas.data[index + 3],
                     paletteData[1], NumberMaxValue)

\* a fully transparent canvas pixel quantized as the first palette entry
CanvasEntryAlphaAware(sampleCanvas, x, y, paletteData) ==
    LET index == (y * sampleCanvas.width + x) * 4
    IN  IF sampleCanvas.data[index + 4] = 0 THEN paletteData[1]
        ELSE ClosestEntry(paletteData, 1, sampleCanvas.data[index + 1],
                          sampleCanvas.data[index + 2], sampleCanvas.data[index + 3],
                          paletteData[1], NumberMaxValue)

\* App.tsx:1088-1114: the quantized entry of the canvas pixel at (x, y)
CanvasEntry(sampleCanvas, x, y, paletteData) ==
    LET index == (y * sampleCanvas.width + x) * 4
    IN  ClosestEntry(paletteData, 1, sampleCanvas.data[index + 1],
                     sampleCanvas.data[index + 2], sampleCanvas.data[index + 3],
                     paletteData[1], NumberMaxValue)

\* App.tsx:1059-1162.  outputCtx is what getContext("2d") gives for the
\* export canvas: FALSE when the browser returns null.
quantizeSampleCanvas(sampleCanvas, paletteData, pixelSizeArg, includeOutputCanvas, outputCtx) ==
    LET sampleWidth == sampleCanvas.width
        sampleHeight == sampleCanvas.height
        quantized ==
            [k \in 1 .. Len(sampleCanvas.data) |->
                LET cell == (k - 1) \div 4
                    entry == CanvasEntry(sampleCanvas, cell % sampleWidth,
                                         cell \div sampleWidth, paletteData)
                IN  CASE (k - 1) % 4 = 0 -> entry.rgb.r
                      [] (k - 1) % 4 = 1 -> entry.rgb.g
                      [] (k - 1) % 4 = 2 -> entry.rgb.b
                      [] OTHER -> 255]
        colorGrid ==
            [row \in 1 .. sampleHeight |->
                [col \in 1 .. sampleWidth |->
                    CanvasEntry(sampleCanvas, col - 1, row - 1, paletteData).hex]]
    IN  IF includeOutputCanvas /\ ~outputCtx
        THEN [error |-> "Unable to create export canvas."]
        ELSE [colorGrid |-> colorGrid,
              sampleWidth |-> sampleWidth,
              sampleHeight |-> sampleHeight,
              sampleCanvas |-> [sampleCanvas EXCEPT !.data = quantized],
              outputCanvas |->
                  IF includeOutputCanvas
                  THEN [width |-> sampleWidth * pixelSizeArg,
                        height |-> sampleHeight * pixelSizeArg]
                  ELSE Null]

(***************************************************************************)
(* The quantizers, each called once on a small frame and palette.          *)
(***************************************************************************)
\* palettes of the harness have 1 .. MaxPaletteLen entries
MaxPaletteLen == 3

Black == <<"#", "0", "0", "0", "0", "0", "0">>
White == <<"#", "f", "f", "f", "f", "f", "f">>
Red == <<"#", "f", "f", "0", "0", "0", "0">>
Green == <<"#", "0", "0", "f", "f", "0", "0">>

QuantColors == {Black, White, Red, Green}

\* RGBA source pixels: three greys and a transparent grey
QuantPixels ==
    {<<10, 10, 10, 255>>, <<250, 250, 250, 255>>, <<127, 127, 127, 255>>,
     <<10, 10, 10, 0>>}

QuantSourceDims == {<<1, 1>>, <<2, 1>>, <<1, 2>>}
QuantSampleDims == {<<1, 1>>, <<3, 1>>, <<1, 2>>, <<2, 2>>}

\* the bytes of a sequence of RGBA pixels
Flatten(pixels) ==
    [k \in 1 .. 4 * Len(pixels) |-> pixels[((k - 1) \div 4) + 1][((k - 1) % 4) + 1]]

\* a 2x2 frame: dark and light in the first row, mid grey and transparent
\* dark in the second
QuantFrame2x2 ==
    [width |-> 2, height |-> 2,
     pixels |-> Flatten(<<<<10, 10, 10, 255>>, <<250, 250, 250, 255>>,
                          <<127, 127, 127, 255>>, <<250, 250, 250, 0>>>>)]

QuantFrames ==
    UNION {{[width |-> d[1], height |-> d[2], pixels |-> Flatten(px)] :
                px \in [1 .. d[1] * d[2] -> QuantPixels]} : d \in QuantSourceDims}
        \cup {QuantFrame2x2}

QuantPalettes == UNION {[1 .. n -> QuantColors] : n \in 1 .. MaxPaletteLen}

QuantInit ==
    /\ AppInit
    /\ pc = "quantize"
    /\ \E frame \in QuantFrames, colors \in QuantPalettes,
          sample \in QuantSampleDims :
          args = [framePixels |-> frame.pixels,
                  sourceWidth |-> frame.width,
                  sourceHeight |-> frame.height,
                  sampleWidth |-> sample[1],
                  sampleHeight |-> sample[2],
                  paletteData |-> PaletteData(colors)]
    /\ locals = <<>>
    /\ ret = <<>>

\* App.tsx:516-528: the animated branch quantizes one decoded frame
CallQuantizeFramePixels ==
    /\ pc = "quantize"
    /\ ret' = [colorGrid |->
                  quantizeFramePixels(args.framePixels, args.sourceWidth,
                                      args.sourceHeight, args.sampleWidth,
                                      args.sampleHeight, args.paletteData)]
    /\ pc' = "quantizeFramePixels returned"
    /\ UNCHANGED <<args, locals>>
    /\ AppIdle

\* App.tsx:651-657: the still branch quantizes the sample canvas, here the
\* canvas that holds the frame's bytes at the frame's own size
CallQuantizeSampleCanvas ==
    /\ pc = "quantize"
    /\ \E size \in PixelSizes, outputCtx \in BOOLEAN :
          /\ locals' = [sampleCanvas |-> [width |-> args.sourceWidth,
                                          height |-> args.sourceHeight,
                                          data |-> args.framePixels],
                        pixelSize |-> size]
          /\ ret' = quantizeSampleCanvas(locals'.sampleCanvas, args.paletteData,
                                         size, TRUE, outputCtx)
          /\ pc' = IF outputCtx THEN "quantizeSampleCanvas returned"
                   ELSE "quantizeSampleCanvas threw"
    /\ UNCHANGED args
    /\ AppIdle

QuantNext == CallQuantizeFramePixels \/ CallQuantizeSampleCanvas

SpecQuant == QuantInit /\ [][QuantNext]_vars

\* the position in the palette that the claim names for the colour (r, g, b):
\* minimal distance, and the first position among those at that distance
NearestFirst(paletteData, r, g, b) ==
    CHOOSE k \in DOMAIN paletteData :
        \A j \in DOMAIN paletteData :
            /\ Distance(paletteData[k].rgb, r, g, b)
                   <= Distance(paletteData[j].rgb, r, g, b)
            /\ j < k => Distance(paletteData[j].rgb, r, g, b)
                            > Distance(paletteData[k].rgb, r, g, b)

\* the byte offset of the source pixel behind grid cell (row, col)
QuantSourceIndex(row, col) ==
    IF pc = "quantizeFramePixels returned"
    THEN 4 * (SourceCoord(row - 1, args.sampleHeight, args.sourceHeight)
                  * args.sourceWidth
              + SourceCoord(col - 1, args.sampleWidth, args.sourceWidth))
    ELSE 4 * ((row - 1) * args.sourceWidth + (col - 1))

QuantReturned ==
    pc \in {"quantizeFramePixels returned", "quantizeSampleCanvas returned"}

\* C6: every cell of the grid a quantizer returns is the hex of the palette
\* entry at minimal squared RGB distance from the cell's source pixel, the
\* first-listed one among entries at that distance; with palette
\* [#000000, #ffffff] the pixels (10,10,10), (250,250,250) and (127,127,127)
\* give #000000, #ffffff and #000000.
C6_NearestColour ==
    QuantReturned =>
        \A row \in DOMAIN ret.colorGrid : \A col \in DOMAIN ret.colorGrid[row] :
            LET index == QuantSourceIndex(row, col)
                r == args.framePixels[index + 1]
                g == args.framePixels[index + 2]
                b == args.framePixels[index + 3]
                cell == ret.colorGrid[row][col]
            IN  /\ cell = args.paletteData[NearestFirst(args.paletteData, r, g, b)].hex
                /\ args.paletteData = PaletteData(<<Black, White>>) =>
                      /\ <<r, g, b>> = <<10, 10, 10>> => cell = Black
                      /\ <<r, g, b>> = <<250, 250, 250>> => cell = White
                      /\ <<r, g, b>> = <<127, 127, 127>> => cell = Black

\* a grid cell whose source pixel is equally near two different colours of the
\* palette, both at minimal distance, and which holds the first-listed of them
C6_Witness ==
    /\ QuantReturned
    /\ \E row \in DOMAIN ret.colorGrid : \E col \in DOMAIN ret.colorGrid[row] :
          LET index == QuantSourceIndex(row, col)
              r == args.framePixels[index + 1]
              g == args.framePixels[index + 2]
              b == args.framePixels[index + 3]
              k == NearestFirst(args.paletteData, r, g, b)
          IN  /\ ret.colorGrid[row][col] = args.paletteData[k].hex
              /\ \E j \in DOMAIN args.paletteData :
                    /\ j > k
                    /\ args.paletteData[j].hex # args.paletteData[k].hex
                    /\ Distance(args.paletteData[j].rgb, r, g, b)
                           = Distance(args.paletteData[k].rgb, r, g, b)

\* the sample canvas that holds the call's source bytes at their own size
ArgsCanvas(data) ==
    [width |-> args.sourceWidth, height |-> args.sourceHeight, data |-> data]

\* C24: on a buffer whose dimensions equal the sample grid and any palette,
\* the grid quantizeFramePixels returns is the grid quantizeSampleCanvas
\* returns for a canvas holding the same bytes, and conversely.
C24_QuantizersAgree ==
    /\ (/\ pc = "quantizeFramePixels returned"
        /\ args.sampleWidth = args.sourceWidth
        /\ args.sampleHeight = args.sourceHeight)
           => ret.colorGrid
                  = quantizeSampleCanvas(ArgsCanvas(args.framePixels),
                                         args.paletteData, 1, TRUE, TRUE).colorGrid
    /\ pc = "quantizeSampleCanvas returned"
           => ret.colorGrid
                  = quantizeFramePixels(args.framePixels, args.sourceWidth,
                                        args.sourceHeight, args.sourceWidth,
                                        args.sourceHeight, args.paletteData)

\* the still quantizer returned the grid of the 2x2 frame, whose columns differ
C24_Witness ==
    /\ pc = "quantizeSampleCanvas returned"
    /\ args.framePixels = QuantFrame2x2.pixels
    /\ args.sourceWidth = 2
    /\ ret.colorGrid[1][1] # ret.colorGrid[1][2]
    /\ ret.colorGrid[2][1] # ret.colorGrid[1][2]

\* the buffer that agrees with `pixels` on every R, G and B byte and is fully
\* opaque
Opaque(pixels) == [k \in DOMAIN pixels |-> IF k % 4 = 0 THEN 255 ELSE pixels[k]]

\* C25: the grid a quantizer returns for a buffer is the grid it returns for
\* the opaque buffer with the same R, G and B bytes, so that two buffers that
\* differ in alpha bytes only give the same grid; and every alpha byte of the
\* quantized preview the still path writes is 255.
C25_AlphaIgnored ==
    /\ pc = "quantizeFramePixels returned" =>
          ret.colorGrid
              = quantizeFramePixels(Opaque(args.framePixels), args.sourceWidth,
                                    args.sourceHeight, args.sampleWidth,
                                    args.sampleHeight, args.paletteData)
    /\ pc = "quantizeSampleCanvas returned" =>
          /\ ret.colorGrid
                 = quantizeSampleCanvas(ArgsCanvas(Opaque(args.framePixels)),
                                        args.paletteData, locals.pixelSize,
                                        TRUE, TRUE).colorGrid
          /\ \A k \in DOMAIN ret.sampleCanvas.data :
                k % 4 = 0 => ret.sampleCanvas.data[k] = 255

\* the still quantizer returned for a buffer with a fully transparent dark
\* pixel, which it quantized to black, not the first palette entry, and wrote
\* alpha 255
C25_Witness ==
    /\ pc = "quantizeSampleCanvas returned"
    /\ args.framePixels[4] = 0
    /\ args.framePixels[1] = 10
    /\ Len(args.paletteData) >= 2
    /\ args.paletteData[1].hex = White
    /\ ret.colorGrid[1][1] = Black
    /\ ret.sampleCanvas.data[4] = 255

(***************************************************************************)
(* extractGifSource: the frame loop over a parsed GIF.  The reader is what *)
(* omggif's GifReader exposes: canvas size, loop count and, per frame, its *)
(* rectangle, delay and disposal code.  A frame's image data is one opaque *)
(* colour over its whole rectangle.  Buffers are byte sequences: byte k of *)
(* a Uint8ClampedArray is element k + 1.                                   *)
(***************************************************************************)
\* TypedArray.prototype.fill(value, start, end) with 0 <= start
Fill(buffer, value, start, end) ==
    [k \in 1 .. Len(buffer) |->
        IF start <= k - 1 /\ k - 1 < end THEN value ELSE buffer[k]]

\* new Uint8ClampedArray(n)
ZeroBuffer(n) == [k \in 1 .. n |-> 0]

\* GifReader.decodeAndBlitFrameRGBA(i, pixels): the frame's pixels replace the
\* canvas pixels inside the frame's rectangle, all others are kept
decodeAndBlitFrameRGBA(frameInfo, pixels, canvasWidth) ==
    [k \in 1 .. Len(pixels) |->
        LET px == ((k - 1) \div 4) % canvasWidth
            py == ((k - 1) \div 4) \div canvasWidth
        IN  IF /\ frameInfo.x <= px /\ px < frameInfo.x + frameInfo.width
               /\ frameInfo.y <= py /\ py < frameInfo.y + frameInfo.height
            THEN frameInfo.colour[((k - 1) % 4) + 1]
            ELSE pixels[k]]

\* a disposal that clears nothing
clearFrameRegionSkipped(buffer, canvasWidth, frame, row) == buffer

\* App.tsx:1459-1480: the loop from row on
RECURSIVE clearFrameRegion(_, _, _, _)
clearFrameRegion(buffer, canvasWidth, frame, row) ==
    IF row >= frame.height THEN buffer
    ELSE LET start == ((frame.y + row) * canvasWidth + frame.x) * 4
         IN  clearFrameRegion(Fill(buffer, 0, start, start + frame.width * 4),
                              canvasWidth, frame, row + 1)

\* App.tsx:1423-1427
RestoreBuffer(frameInfo, canvasState) ==
    IF frameInfo.disposal = 3 THEN [buffer |-> canvasState] ELSE Null

\* a disposal that never puts the snapshot back
DisposeNoRestore(frameInfo, canvasState, restoreBuffer, width) ==
    IF frameInfo.disposal = 2
    THEN clearFrameRegion(canvasState, width, frameInfo, 0)
    ELSE canvasState

\* App.tsx:1438-1449
Dispose(frameInfo, canvasState, restoreBuffer, width) ==
    IF frameInfo.disposal = 2
    THEN clearFrameRegion(canvasState, width, frameInfo, 0)
    ELSE IF frameInfo.disposal = 3 /\ restoreBuffer # Null
         THEN restoreBuffer.buffer
         ELSE canvasState

\* an iteration that captures the canvas after the disposal, not before it
ExtractFrameCapturesLate(reader, l) ==
    LET frameInfo == reader.frames[l.i + 1]
        restoreBuffer == RestoreBuffer(frameInfo, l.canvasState)
        blitted == decodeAndBlitFrameRGBA(frameInfo, l.canvasState, reader.width)
        disposed == Dispose(frameInfo, blitted, restoreBuffer, reader.width)
    IN  [i |-> l.i + 1,
         canvasState |-> disposed,
         frames |-> Append(l.frames, [pixels |-> disposed, delay |-> frameInfo.delay])]

\* App.tsx:1421-1450: one iteration of the frame loop on locals l
ExtractFrame(reader, l) ==
    LET frameInfo == reader.frames[l.i + 1]
        restoreBuffer == RestoreBuffer(frameInfo, l.canvasState)
        blitted == decodeAndBlitFrameRGBA(frameInfo, l.canvasState, reader.width)
    IN  [i |-> l.i + 1,
         canvasState |-> Dispose(frameInfo, blitted, restoreBuffer, reader.width),
         frames |-> Append(l.frames, [pixels |-> blitted, delay |-> frameInfo.delay])]

(***************************************************************************)
(* extractGifSource called once, stepping through its frame loop.          *)
(***************************************************************************)
\* generated GIFs have 0 .. MaxGifFrames frames
MaxGifFrames == 3

GifColours ==
    <<<<255, 0, 0, 255>>, <<0, 255, 0, 255>>,
      <<0, 0, 255, 255>>, <<255, 255, 0, 255>>>>

\* frame rectangles on a 2x2 canvas: all of it, its left column, its top row
\* and its bottom-right pixel
GifRects ==
    {[x |-> 0, y |-> 0, width |-> 2, height |-> 2],
     [x |-> 0, y |-> 0, width |-> 1, height |-> 2],
     [x |-> 0, y |-> 0, width |-> 2, height |-> 1],
     [x |-> 1, y |-> 1, width |-> 1, height |-> 1]}

GifDisposals == {0, 2, 3}

\* GifReader.frameInfo(i) of a frame with rectangle rect
FrameInfo(rect, disposal, i) ==
    [x |-> rect.x, y |-> rect.y, width |-> rect.width, height |-> rect.height,
     disposal |-> disposal, delay |-> 10,
     colour |-> GifColours[(i % Len(GifColours)) + 1]]

\* the GIF on a 2x2 canvas whose frames have the given rectangles and
\* disposal codes
GeneratedGif(shapes) ==
    [width |-> 2, height |-> 2, loopCount |-> Null,
     frames |-> [k \in DOMAIN shapes |->
                    FrameInfo(shapes[k][1], shapes[k][2], k - 1)]]

\* two frames on a 16x16 canvas: frame 0 covers the canvas and is disposed to
\* background, frame 1 is a 10x10 patch at (5,5)
PatchGif ==
    [width |-> 16, height |-> 16, loopCount |-> Null,
     frames |-> <<FrameInfo([x |-> 0, y |-> 0, width |-> 16, height |-> 16], 2, 0),
                  FrameInfo([x |-> 5, y |-> 5, width |-> 10, height |-> 10], 0, 1)>>]

\* two frames on a 2x2 canvas, both with disposal code 1 (leave in place):
\* frame 0 covers the canvas, frame 1 its bottom-right pixel
KeepGif ==
    [width |-> 2, height |-> 2, loopCount |-> Null,
     frames |-> <<[FrameInfo([x |-> 0, y |-> 0, width |-> 2, height |-> 2], 1, 0)
                      EXCEPT !.delay = 7],
                  FrameInfo([x |-> 1, y |-> 1, width |-> 1, height |-> 1], 1, 1)>>]

GifInit ==
    /\ AppInit
    /\ pc = "extractGifSource"
    /\ \/ \E n \in 0 .. MaxGifFrames :
             \E shapes \in [1 .. n -> GifRects \X GifDisposals] :
                 args = GeneratedGif(shapes)
       \/ args = PatchGif
       \/ args = KeepGif
    /\ locals = <<>>
    /\ ret = <<>>

\* App.tsx:1409-1420
ExtractGifSourceEnter ==
    /\ pc = "extractGifSource"
    /\ IF Len(args.frames) = 0
       THEN /\ pc' = "extractGifSource threw"
            /\ ret' = [error |-> "GIF contains no frames"]
            /\ UNCHANGED locals
       ELSE /\ pc' = "extractGifSource loop"
            /\ locals' = [i |-> 0,
                          canvasState |-> ZeroBuffer(args.width * args.height * 4),
                          frames |-> <<>>]
            /\ UNCHANGED ret
    /\ UNCHANGED args
    /\ AppIdle

\* App.tsx:1421-1450
ExtractGifSourceFrame ==
    /\ pc = "extractGifSource loop"
    /\ locals.i < Len(args.frames)
    /\ locals' = ExtractFrame(args, locals)
    /\ UNCHANGED <<pc, args, ret>>
    /\ AppIdle

\* App.tsx:1451-1456
ExtractGifSourceReturn ==
    /\ pc = "extractGifSource loop"
    /\ locals.i >= Len(args.frames)
    /\ ret' = [width |-> args.width, height |-> args.height,
               loopCount |-> args.loopCount, frames |-> locals.frames]
    /\ pc' = "extractGifSource returned"
    /\ UNCHANGED <<args, locals>>
    /\ AppIdle

GifNext ==
    \/ ExtractGifSourceEnter
    \/ ExtractGifSourceFrame
    \/ ExtractGifSourceReturn

SpecGif == GifInit /\ [][GifNext]_vars

\* the RGBA pixel at (px, py) of a canvas-sized buffer
PixelOf(buffer, canvasWidth, px, py) ==
    LET k == (py * canvasWidth + px) * 4
    IN  <<buffer[k + 1], buffer[k + 2], buffer[k + 3], buffer[k + 4]>>

Transparent == <<0, 0, 0, 0>>

InFrame(frameInfo, px, py) ==
    /\ frameInfo.x <= px /\ px < frameInfo.x + frameInfo.width
    /\ frameInfo.y <= py /\ py < frameInfo.y + frameInfo.height

\* the loop is about to run the iteration of a frame with this disposal code
IteratesDisposal(code) ==
    /\ pc = "extractGifSource loop"
    /\ locals.i < Len(args.frames)
    /\ args.frames[locals.i + 1].disposal = code
    /\ locals'.i = locals.i + 1

C7_Step ==
    IteratesDisposal(2) =>
        LET frameInfo == args.frames[locals.i + 1]
            captured == locals'.frames[locals'.i].pixels
        IN  \A px \in 0 .. args.width - 1 : \A py \in 0 .. args.height - 1 :
                IF InFrame(frameInfo, px, py)
                THEN /\ PixelOf(captured, args.width, px, py) = frameInfo.colour
                     /\ PixelOf(locals'.canvasState, args.width, px, py) = Transparent
                ELSE PixelOf(captured, args.width, px, py)
                         = PixelOf(locals.canvasState, args.width, px, py)

C7_Returned ==
    pc = "extractGifSource returned" =>
        /\ \A i \in 1 .. Len(args.frames) - 1 :
              args.frames[i].disposal = 2 =>
                  \A px \in 0 .. args.width - 1 : \A py \in 0 .. args.height - 1 :
                      (/\ InFrame(args.frames[i], px, py)
                       /\ ~InFrame(args.frames[i + 1], px, py))
                          => PixelOf(ret.frames[i + 1].pixels, args.width, px, py)
                                 = Transparent
        /\ args = PatchGif =>
              \A px \in 0 .. 15 : \A py \in 0 .. 15 :
                  PixelOf(ret.frames[2].pixels, 16, px, py)
                      = IF 5 <= px /\ px < 15 /\ 5 <= py /\ py < 15
                        THEN PatchGif.frames[2].colour
                        ELSE Transparent

\* C7: the iteration of a frame with disposal code 2 captures the composited
\* canvas (the frame's colour inside its rectangle, the earlier canvas outside)
\* and leaves every pixel of the rectangle fully transparent for the next
\* frame; for the full-canvas frame followed by a 10x10 patch at (5,5), the
\* buffer captured for the patch frame is transparent outside the patch and has
\* the patch's colour inside.
C7_RestoreBackground == [][C7_Step]_vars /\ []C7_Returned

\* the two-frame example has been decoded: the second captured buffer is
\* transparent at (0,0) and (15,15) and has the patch's colour at (5,5)
C7_Witness ==
    /\ pc = "extractGifSource returned"
    /\ args = PatchGif
    /\ Len(ret.frames) = 2
    /\ PixelOf(ret.frames[1].pixels, 16, 0, 0) = PatchGif.frames[1].colour
    /\ PixelOf(ret.frames[2].pixels, 16, 0, 0) = Transparent
    /\ PixelOf(ret.frames[2].pixels, 16, 15, 15) = Transparent
    /\ PixelOf(ret.frames[2].pixels, 16, 5, 5) = PatchGif.frames[2].colour

C8_Step ==
    IteratesDisposal(3) =>
        LET frameInfo == args.frames[locals.i + 1]
            captured == locals'.frames[locals'.i].pixels
        IN  /\ locals'.canvasState = locals.canvasState
            /\ \A px \in 0 .. args.width - 1 : \A py \in 0 .. args.height - 1 :
                  PixelOf(captured, args.width, px, py)
                      = IF InFrame(frameInfo, px, py)
                        THEN frameInfo.colour
                        ELSE PixelOf(locals.canvasState, args.width, px, py)

\* the canvas a frame is composited onto when the frame before it has code 3:
\* what the frame two before left, which is its captured buffer when that
\* frame keeps the canvas, and the empty canvas when there is none
C8_Returned ==
    pc = "extractGifSource returned" =>
        \A i \in 1 .. Len(args.frames) - 1 :
            (/\ args.frames[i].disposal = 3
             /\ i > 1 => args.frames[i - 1].disposal = 0)
                => \A px \in 0 .. args.width - 1 : \A py \in 0 .. args.height - 1 :
                       ~InFrame(args.frames[i + 1], px, py) =>
                           PixelOf(ret.frames[i + 1].pixels, args.width, px, py)
                               = IF i = 1 THEN Transparent
                                 ELSE PixelOf(ret.frames[i - 1].pixels,
                                              args.width, px, py)

\* C8: the iteration of a frame with disposal code 3 leaves the canvas exactly
\* as it was before the frame was composited, the buffer captured for that
\* frame holds the frame's pixels over that canvas, and the next frame is
\* composited onto the canvas as it was before the code-3 frame.
C8_RestorePrevious == [][C8_Step]_vars /\ []C8_Returned

\* three frames: the first is kept, the second has code 3 and changed a pixel
\* that the third does not cover, and the third's captured buffer shows the
\* first frame's colour there
C8_Witness ==
    /\ pc = "extractGifSource returned"
    /\ Len(args.frames) = 3
    /\ args.frames[1].disposal = 0
    /\ args.frames[2].disposal = 3
    /\ \E px \in 0 .. args.width - 1 : \E py \in 0 .. args.height - 1 :
          /\ InFrame(args.frames[1], px, py)
          /\ InFrame(args.frames[2], px, py)
          /\ ~InFrame(args.frames[3], px, py)
          /\ PixelOf(ret.frames[2].pixels, args.width, px, py) = args.frames[2].colour
          /\ PixelOf(ret.frames[3].pixels, args.width, px, py) = args.frames[1].colour

\* the loop runs the iteration of its next frame
Iterates ==
    /\ pc = "extractGifSource loop"
    /\ locals.i < Len(args.frames)
    /\ locals'.i = locals.i + 1

C23_Step ==
    Iterates =>
        LET frameInfo == args.frames[locals.i + 1]
            captured == locals'.frames[locals'.i]
        IN  /\ Len(locals'.frames) = locals.i + 1
            /\ \A k \in 1 .. locals.i : locals'.frames[k] = locals.frames[k]
            /\ captured.delay = frameInfo.delay
            /\ Len(captured.pixels) = args.width * args.height * 4
            /\ \A px \in 0 .. args.width - 1 : \A py \in 0 .. args.height - 1 :
                  PixelOf(captured.pixels, args.width, px, py)
                      = IF InFrame(frameInfo, px, py)
                        THEN frameInfo.colour
                        ELSE PixelOf(locals.canvasState, args.width, px, py)
            /\ frameInfo.disposal \notin {2, 3}
                  => locals'.canvasState = captured.pixels

C23_Returned ==
    pc = "extractGifSource returned" =>
        /\ Len(ret.frames) = Len(args.frames)
        /\ ret.frames = locals.frames
        /\ \A i \in 1 .. Len(args.frames) - 1 :
              args.frames[i].disposal \notin {2, 3} =>
                  \A px \in 0 .. args.width - 1 : \A py \in 0 .. args.height - 1 :
                      PixelOf(ret.frames[i + 1].pixels, args.width, px, py)
                          = IF InFrame(args.frames[i + 1], px, py)
                            THEN args.frames[i + 1].colour
                            ELSE PixelOf(ret.frames[i].pixels, args.width, px, py)

\* C23: extractGifSource returns one captured buffer per frame, in frame
\* order, each the canvas as it was right after that frame was composited,
\* with the frame's delay; an iteration leaves the buffers captured before it
\* unchanged; after a frame whose disposal code is neither 2 nor 3 the canvas
\* is the captured content, so the next frame's buffer is that content with
\* the next frame's pixels on top.
C23_AccumulateAndCapture == [][C23_Step]_vars /\ []C23_Returned

\* two frames with disposal code 1 have been decoded: the second buffer shows
\* the first frame's colour where the second frame does not draw
C23_Witness ==
    /\ pc = "extractGifSource returned"
    /\ args = KeepGif
    /\ Len(ret.frames) = 2
    /\ ret.frames[1].delay = 7
    /\ PixelOf(ret.frames[1].pixels, 2, 1, 1) = KeepGif.frames[1].colour
    /\ PixelOf(ret.frames[2].pixels, 2, 0, 0) = KeepGif.frames[1].colour
    /\ PixelOf(ret.frames[2].pixels, 2, 1, 1) = KeepGif.frames[2].colour

(***************************************************************************)
(* buildPaletteLookup and colorGridToIndexedPixels.  The empty string is   *)
(* the empty sequence of characters.                                       *)
(***************************************************************************)
\* Array.from(new Set(list)) on elements lo .. hi of the list: the first
\* occurrence of each element, in order (the halves are deduplicated and the
\* second loses what the first holds)
RECURSIVE Dedupe(_, _, _)
Dedupe(list, lo, hi) ==
    IF lo > hi THEN <<>>
    ELSE IF lo = hi THEN <<list[lo]>>
    ELSE LET mid == (lo + hi) \div 2
             first == Dedupe(list, lo, mid)
             seen == {first[i] : i \in DOMAIN first}
         IN  first \o SelectSeq(Dedupe(list, mid + 1, hi), LAMBDA e : e \notin seen)

\* Math.ceil(Math.log2(n)) for 1 <= n <= 256
CeilLog2(n) == CHOOSE e \in 0 .. 8 : 2 ^ e >= n /\ (e = 0 \/ 2 ^ (e - 1) < n)

\* the palette size without rounding up to a power of two
TargetSizeUnrounded(cappedLength) == Max(2, cappedLength)

\* App.tsx:1308-1316
TargetSize(cappedLength) == Max(2, 2 ^ CeilLog2(Max(2, cappedLength)))

\* App.tsx:1334-1342: each colour of the padded palette mapped to the first
\* slot (from 0) that holds it
ColorIndexMap(paddedPalette) ==
    [hex \in {paddedPalette[i] : i \in DOMAIN paddedPalette} |->
        (CHOOSE i \in DOMAIN paddedPalette :
            /\ paddedPalette[i] = hex
            /\ \A j \in 1 .. i - 1 : paddedPalette[j] # hex) - 1]

\* App.tsx:1285-1350
buildPaletteLookup(palette) ==
    LET source == IF Len(palette) # 0 THEN palette ELSE <<Black, White>>
        deduped == Dedupe([i \in DOMAIN source |-> toLowerCase(source[i])], 1, Len(source))
        normalizedPalette ==
            IF Len(deduped) = 0 THEN <<Black, White>>
            ELSE IF Len(deduped) = 1 THEN Append(deduped, deduped[1])
            ELSE deduped
        cappedLength == Min(256, Len(normalizedPalette))
        targetSize == TargetSize(cappedLength)
        fallbackHex == normalizedPalette[Len(normalizedPalette)]
        sliced == SubSeq(normalizedPalette, 1, Min(targetSize, Len(normalizedPalette)))
        paddedPalette == sliced \o [k \in 1 .. targetSize - Len(sliced) |-> fallbackHex]
        colorIndexMap == ColorIndexMap(paddedPalette)
    IN  [paletteColors |->
             [i \in DOMAIN paddedPalette |->
                 LET rgb == hexToRgb(paddedPalette[i])
                 IN  rgb.r * 65536 + rgb.g * 256 + rgb.b],
         colorIndexMap |-> colorIndexMap,
         fallbackIndex |->
             IF fallbackHex \in DOMAIN colorIndexMap
             THEN colorIndexMap[fallbackHex]
             ELSE 0]

\* an unmapped colour written as slot 0
PaletteIndexZero(colorHex, colorIndexMap, fallbackIndex) ==
    IF colorHex \in DOMAIN colorIndexMap THEN colorIndexMap[colorHex] ELSE 0

\* App.tsx:1386-1388
PaletteIndex(colorHex, colorIndexMap, fallbackIndex) ==
    IF colorHex \in DOMAIN colorIndexMap
    THEN colorIndexMap[colorHex]
    ELSE fallbackIndex

\* App.tsx:1382-1385: colors[y]?.[x]?.toLowerCase() ?? ""
ColorHex(colors, x, y) ==
    IF y + 1 <= Len(colors) /\ x + 1 <= Len(colors[y + 1])
    THEN toLowerCase(colors[y + 1][x + 1])
    ELSE <<>>

\* the loops without the dy loop: only the first row of each block is written
RECURSIVE WriteIndexedPixelsFirstRow(_, _, _)
WriteIndexedPixelsFirstRow(indexedPixels, n, c) ==
    IF n >= c.sampleHeight * c.sampleWidth * c.blockSize
    THEN indexedPixels
    ELSE LET y == n \div (c.sampleWidth * c.blockSize)
             x == (n \div c.blockSize) % c.sampleWidth
             dx == n % c.blockSize
             at == y * c.blockSize * c.finalWidth + x * c.blockSize + dx + 1
         IN  WriteIndexedPixelsFirstRow(
                 [indexedPixels EXCEPT ![at] =
                     PaletteIndex(ColorHex(c.colors, x, y),
                                  c.colorIndexMap, c.fallbackIndex)],
                 n + 1, c)

\* App.tsx:1373-1402: the four nested loops, n counting their iterations in
\* order; a Uint8Array keeps a stored value modulo 256 and drops a write
\* outside its length
RECURSIVE WriteIndexedPixels(_, _, _)
WriteIndexedPixels(indexedPixels, n, c) ==
    IF n >= c.sampleHeight * c.blockSize * c.sampleWidth * c.blockSize
    THEN indexedPixels
    ELSE LET y == n \div (c.blockSize * c.sampleWidth * c.blockSize)
             dy == (n \div (c.sampleWidth * c.blockSize)) % c.blockSize
             x == (n \div c.blockSize) % c.sampleWidth
             dx == n % c.blockSize
             row == y * c.blockSize + dy
             rowOffset == row * c.finalWidth
             column == x * c.blockSize + dx
             paletteIndex == PaletteIndex(ColorHex(c.colors, x, y),
                                          c.colorIndexMap, c.fallbackIndex)
             at == rowOffset + column + 1
         IN  WriteIndexedPixels(
                 IF at \in DOMAIN indexedPixels
                 THEN [indexedPixels EXCEPT ![at] = paletteIndex % 256]
                 ELSE indexedPixels,
                 n + 1, c)

\* a conversion that never throws: it answers every grid with an empty buffer
colorGridToIndexedPixelsUnchecked(colors, blockSize, colorIndexMap, fallbackIndex) ==
    [indexedPixels |-> ZeroBuffer(0)]

\* App.tsx:1352-1404
colorGridToIndexedPixels(colors, blockSize, colorIndexMap, fallbackIndex) ==
    LET sampleHeight == Len(colors)
        sampleWidth == IF Len(colors) > 0 THEN Len(colors[1]) ELSE 0
    IN  IF sampleHeight = 0 \/ sampleWidth = 0
        THEN [error |-> "Color grid is empty."]
        ELSE LET finalWidth == sampleWidth * blockSize
                 finalHeight == sampleHeight * blockSize
             IN  [indexedPixels |->
                     WriteIndexedPixels(
                         ZeroBuffer(finalWidth * finalHeight), 0,
                         [colors |-> colors, blockSize |-> blockSize,
                          colorIndexMap |-> colorIndexMap,
                          fallbackIndex |-> fallbackIndex,
                          sampleWidth |-> sampleWidth,
                          sampleHeight |-> sampleHeight,
                          finalWidth |-> finalWidth])]

(***************************************************************************)
(* buildPaletteLookup called on a list of colours, then                    *)
(* colorGridToIndexedPixels called with its table on a grid.               *)
(***************************************************************************)
WhiteUpper == <<"#", "F", "F", "F", "F", "F", "F">>

\* the i-th of a run of distinct colours: #000000, #000001, ...
HexOf(i) ==
    <<"#", "0", "0", "0", HexDigits[(i \div 256) + 1],
      HexDigits[((i \div 16) % 16) + 1], HexDigits[(i % 16) + 1]>>

LookupColors == QuantColors \cup {WhiteUpper}

\* lengths of the lists of distinct colours, around the powers of two and
\* around the cap of 256
LongPaletteLens == {5, 8, 9, 16, 17, 128, 129, 255, 256, 257, 300}

LookupPalettes ==
    (UNION {[1 .. n -> LookupColors] : n \in 0 .. MaxPaletteLen})
        \cup {[k \in 1 .. n |-> HexOf(k - 1)] : n \in LongPaletteLens}

\* grid cells: in the short palettes or not, upper case, in the long palettes
\* only past slot 255
GridCells == {Black, WhiteUpper, Red, HexOf(256), HexOf(4095)}

\* no rows, a row of no cells, a row of no cells above a row of one, one
\* cell, and two rows of which the second lacks its last cell
LookupGrids ==
    {<<>>, <<<<>>>>, <<<<>>, <<Black>>>>}
        \cup {<<<<a>>>> : a \in GridCells}
        \cup {<<<<a, b>>, <<a>>>> : a \in GridCells, b \in GridCells}

BlockSizes == {1, 2}

LookupInit ==
    /\ AppInit
    /\ pc = "buildPaletteLookup"
    /\ \E colours \in LookupPalettes, grid \in LookupGrids, size \in BlockSizes :
          args = [palette |-> colours, colors |-> grid, pixelSize |-> size]
    /\ locals = <<>>
    /\ ret = <<>>

\* App.tsx:477-484
CallBuildPaletteLookup ==
    /\ pc = "buildPaletteLookup"
    /\ locals' = buildPaletteLookup(args.palette)
    /\ pc' = "colorGridToIndexedPixels"
    /\ UNCHANGED <<args, ret>>
    /\ AppIdle

\* App.tsx:537-546
CallColorGridToIndexedPixels ==
    /\ pc = "colorGridToIndexedPixels"
    /\ ret' = colorGridToIndexedPixels(args.colors, args.pixelSize,
                                       locals.colorIndexMap, locals.fallbackIndex)
    /\ pc' = IF "error" \in DOMAIN ret'
             THEN "colorGridToIndexedPixels threw"
             ELSE "colorGridToIndexedPixels returned"
    /\ UNCHANGED <<args, locals>>
    /\ AppIdle

\* the state of the App while an animated job runs its frame loop: rebuild
\* (App.tsx:712-718) has allocated job 1 for a decoded animation
InAnimatedJob ==
    [State EXCEPT !.jobRef = 1,
                  !.isProcessing = TRUE,
                  !.status = "Building pixel preview...",
                  !.vectorData = Null,
                  !.resultPreview = Null,
                  !.outputFormat = "image/gif",
                  !.sourceGif = ParsedGif(1, GifA)]

\* App.tsx:584-593: the catch around the animated branch receives what the
\* frame loop threw; ret becomes the App state that fail sets
CatchGifError ==
    /\ pc = "colorGridToIndexedPixels threw"
    /\ ret' = fail(InAnimatedJob, 1, "GIF processing failed",
                   [message |-> ret.error])
    /\ pc' = "convertImage failed"
    /\ UNCHANGED <<args, locals>>
    /\ AppIdle

LookupNext ==
    \/ CallBuildPaletteLookup
    \/ CallColorGridToIndexedPixels
    \/ CatchGifError

SpecLookup == LookupInit /\ [][LookupNext]_vars

LookupBuilt ==
    pc \in {"colorGridToIndexedPixels", "colorGridToIndexedPixels threw",
            "colorGridToIndexedPixels returned", "convertImage failed"}

\* the colours of a list, compared without regard to case
LoweredSet(list) == {toLowerCase(list[i]) : i \in DOMAIN list}

\* C9: the palette array buildPaletteLookup returns has a length that is a
\* power of two, at least 2 and at most 256, whatever the list of colours.
C9_PowerOfTwo ==
    LookupBuilt => Len(locals.paletteColors) \in {2 ^ e : e \in 1 .. 8}

\* a list of more than 256 distinct colours gave a palette of 256 slots
C9_Witness ==
    /\ LookupBuilt
    /\ Cardinality(LoweredSet(args.palette)) > 256
    /\ Len(locals.paletteColors) = 256

\* what C10 says of the output for the list of colours `original`: a pixel of
\* a cell that is missing from the grid, or whose hex (case aside) is not in
\* that list, holds the table's fallback index; every index written and the
\* fallback index are smaller than the padded palette length
FallbackCovers(original) ==
    pc = "colorGridToIndexedPixels returned" =>
        LET finalWidth == Len(args.colors[1]) * args.pixelSize
        IN  /\ locals.fallbackIndex < Len(locals.paletteColors)
            /\ \A k \in DOMAIN ret.indexedPixels :
                  LET y == ((k - 1) \div finalWidth) \div args.pixelSize
                      x == ((k - 1) % finalWidth) \div args.pixelSize
                      missing == x + 1 > Len(args.colors[y + 1])
                  IN  /\ ret.indexedPixels[k] < Len(locals.paletteColors)
                      /\ (missing \/ toLowerCase(args.colors[y + 1][x + 1])
                                         \notin LoweredSet(original))
                             => ret.indexedPixels[k] = locals.fallbackIndex

\* C10 as stated: the fallback index is written for every cell that is missing
\* or whose hex is not in the list buildPaletteLookup was called with, and
\* every index written is smaller than the padded palette length.
C10_FallbackCoverage == FallbackCovers(args.palette)

\* C10 amended: the same with the list replaced by the colours the table is
\* built from, which are [#000000, #ffffff] when the list is empty.
C10_FallbackCoverageOfTable ==
    FallbackCovers(IF Len(args.palette) = 0 THEN <<Black, White>> ELSE args.palette)

\* a grid with a missing cell and a cell of a colour outside the palette, both
\* written as a fallback index that is not slot 0, next to a cell of a palette
\* colour written as its own slot
C10_Witness ==
    /\ pc = "colorGridToIndexedPixels returned"
    /\ locals.fallbackIndex > 0
    /\ Len(args.colors) = 2
    /\ toLowerCase(args.colors[1][1]) \in LoweredSet(args.palette)
    /\ ret.indexedPixels[1] = locals.colorIndexMap[toLowerCase(args.colors[1][1])]
    /\ ret.indexedPixels[1] # locals.fallbackIndex
    /\ toLowerCase(args.colors[1][2]) \notin LoweredSet(args.palette)
    /\ ret.indexedPixels[args.pixelSize + 1] = locals.fallbackIndex
    /\ ret.indexedPixels[Len(ret.indexedPixels)] = locals.fallbackIndex

\* what C20 says of the table built from the list `original`: the fallback
\* index is a slot of the deduplicated list, that slot holds the last colour
\* of the deduplicated list, and every slot past the deduplicated list holds
\* that colour too
FallbackIsLast(original) ==
    LET lowered == [i \in DOMAIN original |-> toLowerCase(original[i])]
        deduped == Dedupe(lowered, 1, Len(lowered))
        rgb == hexToRgb(deduped[Len(deduped)])
        packed == rgb.r * 65536 + rgb.g * 256 + rgb.b
    IN  /\ locals.fallbackIndex < Len(deduped)
        /\ locals.paletteColors[locals.fallbackIndex + 1] = packed
        /\ \A i \in Len(deduped) + 1 .. Len(locals.paletteColors) :
              locals.paletteColors[i] = packed

\* C20: for every non-empty list of colours, lists of more than 256 distinct
\* colours included, the fallbackIndex buildPaletteLookup returns is the slot
\* holding the last colour of the deduplicated list, and the padding slots
\* repeat that colour.
C20_FallbackSlot ==
    (LookupBuilt /\ Len(args.palette) > 0) => FallbackIsLast(args.palette)

\* the same for the lists of at most 256 distinct colours
C20_FallbackSlotWithinCap ==
    (/\ LookupBuilt
     /\ Len(args.palette) > 0
     /\ Cardinality(LoweredSet(args.palette)) <= 256) => FallbackIsLast(args.palette)

\* the slot the table gives the grid cell in column x, row y (from 0)
SlotOfCell(x, y) ==
    IF x + 1 <= Len(args.colors[y + 1])
          /\ toLowerCase(args.colors[y + 1][x + 1]) \in DOMAIN locals.colorIndexMap
    THEN locals.colorIndexMap[toLowerCase(args.colors[y + 1][x + 1])]
    ELSE locals.fallbackIndex

\* C11: for a grid of w columns and h rows and block size k the buffer
\* colorGridToIndexedPixels returns has (w*k)*(h*k) entries, and the entry at
\* output coordinate (X, Y) is the table's slot of grid cell (X div k, Y div k).
C11_BlockExpansion ==
    pc = "colorGridToIndexedPixels returned" =>
        LET w == Len(args.colors[1])
            h == Len(args.colors)
            k == args.pixelSize
        IN  /\ Len(ret.indexedPixels) = (w * k) * (h * k)
            /\ \A X \in 0 .. w * k - 1 : \A Y \in 0 .. h * k - 1 :
                  ret.indexedPixels[Y * (w * k) + X + 1] = SlotOfCell(X \div k, Y \div k)

\* a 2x2 grid expanded with block size 2 whose first two cells have different
\* slots: the first block is uniform and the second starts at column 2
C11_Witness ==
    /\ pc = "colorGridToIndexedPixels returned"
    /\ args.pixelSize = 2
    /\ Len(args.colors) = 2
    /\ Len(ret.indexedPixels) = 16
    /\ SlotOfCell(0, 0) # SlotOfCell(1, 0)
    /\ ret.indexedPixels[1] = SlotOfCell(0, 0)
    /\ ret.indexedPixels[2] = SlotOfCell(0, 0)
    /\ ret.indexedPixels[5] = SlotOfCell(0, 0)
    /\ ret.indexedPixels[6] = SlotOfCell(0, 0)
    /\ ret.indexedPixels[3] = SlotOfCell(1, 0)

(***************************************************************************)
(* buildSvgFromColors.  The markup is kept as its parts: the declared      *)
(* size, the viewBox and the rect elements in the order they are joined.   *)
(***************************************************************************)
\* App.tsx:1045-1046: colors[y]?.[x] is a colour (neither undefined nor "")
HasColor(colors, x, y) ==
    /\ y + 1 <= Len(colors)
    /\ x + 1 <= Len(colors[y + 1])
    /\ colors[y + 1][x + 1] # <<>>

\* the loops with x outside and y inside
RECURSIVE SvgRectsColumnMajor(_, _, _)
SvgRectsColumnMajor(rects, n, c) ==
    IF n >= c.width * c.height THEN rects
    ELSE LET x == n \div c.height
             y == n % c.height
         IN  SvgRectsColumnMajor(
                 IF HasColor(c.colors, x, y)
                 THEN Append(rects, [x |-> x * c.blockSize, y |-> y * c.blockSize,
                                     width |-> c.blockSize, height |-> c.blockSize,
                                     fill |-> c.colors[y + 1][x + 1]])
                 ELSE rects,
                 n + 1, c)

\* App.tsx:1043-1053: the two nested loops, n counting their iterations
RECURSIVE SvgRects(_, _, _)
SvgRects(rects, n, c) ==
    IF n >= c.width * c.height THEN rects
    ELSE LET y == n \div c.width
             x == n % c.width
         IN  SvgRects(
                 IF HasColor(c.colors, x, y)
                 THEN Append(rects, [x |-> x * c.blockSize, y |-> y * c.blockSize,
                                     width |-> c.blockSize, height |-> c.blockSize,
                                     fill |-> c.colors[y + 1][x + 1]])
                 ELSE rects,
                 n + 1, c)

\* App.tsx:1029-1057
buildSvgFromColors(colors, width, height, blockSize) ==
    LET svgWidth == width * blockSize
        svgHeight == height * blockSize
    IN  [width |-> svgWidth,
         height |-> svgHeight,
         viewBox |-> <<0, 0, svgWidth, svgHeight>>,
         shapeRendering |-> "crispEdges",
         rects |-> SvgRects(<<>>, 0, [colors |-> colors, width |-> width,
                                      height |-> height, blockSize |-> blockSize])]

Blue == <<"#", "0", "0", "0", "0", "f", "f">>

\* a cell is a colour or the empty string
SvgCells == {Red, Green, Blue, White, <<>>}

\* 1x1 and 2x2 grids, and 2x2 grids whose second row lacks its last cell
SvgGrids ==
    {<<<<a>>>> : a \in SvgCells}
        \cup {<<<<a, b>>, <<c>>>> : a \in SvgCells, b \in SvgCells, c \in SvgCells}
        \cup {<<<<a, b>>, <<c, d>>>> :
                  a \in SvgCells, b \in SvgCells, c \in SvgCells, d \in SvgCells}

SvgBlockSizes == {1, 2, 12}

SvgInit ==
    /\ AppInit
    /\ pc = "buildSvgFromColors"
    /\ \E grid \in SvgGrids, size \in SvgBlockSizes :
          args = [colors |-> grid, width |-> Len(grid[1]), height |-> Len(grid),
                  pixelSize |-> size]
    /\ locals = <<>>
    /\ ret = <<>>

\* App.tsx:773-774
CallBuildSvgFromColors ==
    /\ pc = "buildSvgFromColors"
    /\ ret' = buildSvgFromColors(args.colors, args.width, args.height, args.pixelSize)
    /\ pc' = "buildSvgFromColors returned"
    /\ UNCHANGED <<args, locals>>
    /\ AppIdle

SvgNext == CallBuildSvgFromColors

SpecSvg == SvgInit /\ [][SvgNext]_vars

\* the cells of the grid that have a colour, as <<x, y>> from 0
ColouredCells ==
    {cell \in (0 .. args.width - 1) \X (0 .. args.height - 1) :
        /\ cell[1] + 1 <= Len(args.colors[cell[2] + 1])
        /\ args.colors[cell[2] + 1][cell[1] + 1] # <<>>}

\* C12: the markup declares width*k by height*k and has exactly one rectangle
\* per cell with a colour, in row-major order, at (x*k, y*k), k by k, filled
\* with the cell's hex, and none for a cell without a colour; the grid
\* [[#ff0000,#00ff00],[#0000ff,#ffffff]] with k = 2 gives 4x4 and four 2x2
\* rectangles in grid order.
C12_VectorOutput ==
    pc = "buildSvgFromColors returned" =>
        LET k == args.pixelSize
        IN  /\ ret.width = args.width * k
            /\ ret.height = args.height * k
            /\ Len(ret.rects) = Cardinality(ColouredCells)
            /\ \A cell \in ColouredCells :
                  \E i \in DOMAIN ret.rects :
                      ret.rects[i] = [x |-> cell[1] * k, y |-> cell[2] * k,
                                      width |-> k, height |-> k,
                                      fill |-> args.colors[cell[2] + 1][cell[1] + 1]]
            /\ \A i \in DOMAIN ret.rects : \A j \in DOMAIN ret.rects :
                  i < j => \/ ret.rects[i].y < ret.rects[j].y
                           \/ /\ ret.rects[i].y = ret.rects[j].y
                              /\ ret.rects[i].x < ret.rects[j].x
            /\ (args.colors = <<<<Red, Green>>, <<Blue, White>>>> /\ k = 2) =>
                  /\ ret.width = 4
                  /\ ret.height = 4
                  /\ ret.rects =
                        <<[x |-> 0, y |-> 0, width |-> 2, height |-> 2, fill |-> Red],
                          [x |-> 2, y |-> 0, width |-> 2, height |-> 2, fill |-> Green],
                          [x |-> 0, y |-> 2, width |-> 2, height |-> 2, fill |-> Blue],
                          [x |-> 2, y |-> 2, width |-> 2, height |-> 2, fill |-> White]>>

\* a 2x2 grid with one cell without a colour gave three rectangles, the last
\* of them for the bottom-right cell
C12_Witness ==
    /\ pc = "buildSvgFromColors returned"
    /\ args.pixelSize = 2
    /\ Len(args.colors) = 2
    /\ Len(args.colors[2]) = 2
    /\ args.colors[1][2] = <<>>
    /\ Len(ret.rects) = 3
    /\ ret.rects[2].fill = args.colors[2][1]
    /\ ret.rects[3] = [x |-> 2, y |-> 2, width |-> 2, height |-> 2,
                       fill |-> args.colors[2][2]]

(***************************************************************************)
(* clampFrameDelay and normalizeLoopCount.  A JavaScript value is a record *)
(* with its kind; a finite number is kept in tenths, so 6 is 60 tenths and *)
(* 0.5 is 5 tenths.                                                        *)
(***************************************************************************)
Finite(tenths) == [kind |-> "finite", tenths |-> tenths]
NaN == [kind |-> "NaN"]
PlusInfinity == [kind |-> "Infinity"]
MinusInfinity == [kind |-> "-Infinity"]
NullValue == [kind |-> "null"]
StringValue == [kind |-> "string"]

\* typeof value === "number"
IsNumber(value) == value.kind \in {"finite", "NaN", "Infinity", "-Infinity"}

\* Number.isFinite
IsFinite(value) == value.kind = "finite"

\* Math.round of tenths / 10: the nearest integer, a half going up
MathRound(tenths) == (tenths + 5) \div 10

\* the clamp without the floor at 1
clampFrameDelayNoFloor(delay) ==
    IF ~IsFinite(delay) \/ delay.tenths <= 0
    THEN 6
    ELSE Min(65535, MathRound(delay.tenths))

\* App.tsx:1227-1235
clampFrameDelay(delay) ==
    IF ~IsFinite(delay) \/ delay.tenths <= 0
    THEN 6
    ELSE Max(1, Min(65535, MathRound(delay.tenths)))

\* the normalization without the cap
normalizeLoopCountUncapped(loopCount) ==
    IF ~IsNumber(loopCount) \/ ~IsFinite(loopCount) \/ loopCount.tenths < 0
    THEN 0
    ELSE MathRound(loopCount.tenths)

\* App.tsx:1272-1283
normalizeLoopCount(loopCount) ==
    IF ~IsNumber(loopCount) \/ ~IsFinite(loopCount) \/ loopCount.tenths < 0
    THEN 0
    ELSE Min(65535, MathRound(loopCount.tenths))

\* finite numbers in tenths: -2.0 to 3.0 in steps of 0.1, and values around
\* 6, 100 and 65535, and 100000
NumberTenths ==
    (-20 .. 30) \cup {-50, 55, 60, 64, 65, 1000, 655340, 655344, 655345,
                      655350, 655354, 655355, 655360, 1000000}

JsValues ==
    {Finite(n) : n \in NumberTenths}
        \cup {NaN, PlusInfinity, MinusInfinity, NullValue, StringValue}

NumericInit ==
    /\ AppInit
    /\ pc = "numeric"
    /\ args \in JsValues
    /\ locals = <<>>
    /\ ret = 0

\* App.tsx:554-556
CallClampFrameDelay ==
    /\ pc = "numeric"
    /\ ret' = clampFrameDelay(args)
    /\ pc' = "clampFrameDelay returned"
    /\ UNCHANGED <<args, locals>>
    /\ AppIdle

\* App.tsx:504-506
CallNormalizeLoopCount ==
    /\ pc = "numeric"
    /\ ret' = normalizeLoopCount(args)
    /\ pc' = "normalizeLoopCount returned"
    /\ UNCHANGED <<args, locals>>
    /\ AppIdle

NumericNext == CallClampFrameDelay \/ CallNormalizeLoopCount

SpecNumeric == NumericInit /\ [][NumericNext]_vars

\* the integer nearest to tenths / 10, the upper one of two equally near
Nearest(tenths) ==
    CHOOSE r \in -10 .. 100001 : 10 * r - 5 <= tenths /\ tenths < 10 * r + 5

\* C13: clampFrameDelay gives 6 for a delay that is not finite or is <= 0 and
\* otherwise the rounded delay clamped to [1, 65535]; 0, -5, NaN and 100000
\* give 6, 6, 6 and 65535; the result is always an integer in [1, 65535].
C13_DelayClamp ==
    pc = "clampFrameDelay returned" =>
        /\ ret \in 1 .. 65535
        /\ (args.kind # "finite" \/ args.tenths <= 0) => ret = 6
        /\ (args.kind = "finite" /\ args.tenths > 0) =>
              ret = IF Nearest(args.tenths) < 1 THEN 1
                    ELSE IF Nearest(args.tenths) > 65535 THEN 65535
                    ELSE Nearest(args.tenths)
        /\ args = Finite(0) => ret = 6
        /\ args = Finite(-50) => ret = 6
        /\ args = NaN => ret = 6
        /\ args = Finite(1000000) => ret = 65535

\* a positive delay below one half was raised to 1
C13_Witness ==
    /\ pc = "clampFrameDelay returned"
    /\ args.kind = "finite"
    /\ args.tenths > 0
    /\ args.tenths < 5
    /\ ret = 1

\* C19: normalizeLoopCount gives 0 for null, a non-number, a non-finite number
\* and a negative number, and otherwise the rounded value capped at 65535; the
\* result is always an integer in [0, 65535].
C19_LoopCount ==
    pc = "normalizeLoopCount returned" =>
        /\ ret \in 0 .. 65535
        /\ (args.kind # "finite" \/ args.tenths < 0) => ret = 0
        /\ (args.kind = "finite" /\ args.tenths >= 0) =>
              ret = IF Nearest(args.tenths) > 65535 THEN 65535
                    ELSE Nearest(args.tenths)

\* a loop count above 65535 was capped
C19_Witness ==
    /\ pc = "normalizeLoopCount returned"
    /\ args.kind = "finite"
    /\ args.tenths > 655350
    /\ ret = 65535

(***************************************************************************)
(* The empty grid.                                                         *)
(***************************************************************************)
\* the grid has zero rows, or its first row has zero columns
EmptyGrid == Len(args.colors) = 0 \/ Len(args.colors[1]) = 0

\* C26: colorGridToIndexedPixels throws "Color grid is empty.", and returns
\* no buffer, exactly when the grid has zero rows or its first row has zero
\* columns; caught in an animated job, the error ends the job with the status
\* "GIF processing failed: Color grid is empty.", isProcessing false and no
\* resultPreview or vectorData committed.
C26_EmptyGridError ==
    /\ pc \in {"colorGridToIndexedPixels threw", "convertImage failed"}
          => EmptyGrid
    /\ pc = "colorGridToIndexedPixels threw"
          => ret = [error |-> "Color grid is empty."]
    /\ pc = "colorGridToIndexedPixels returned"
          => ~EmptyGrid /\ DOMAIN ret = {"indexedPixels"}
    /\ pc = "convertImage failed"
          => /\ ret.status = "GIF processing failed: Color grid is empty."
             /\ ~ret.isProcessing
             /\ ret.jobRef = 1
             /\ ret.resultPreview = Null
             /\ ret.vectorData = Null

\* a grid whose first row is empty above a row of one cell made the frame
\* loop throw, and the job has been failed
C26_Witness ==
    /\ pc = "convertImage failed"
    /\ Len(args.colors) = 2
    /\ Len(args.colors[1]) = 0
    /\ ~ret.isProcessing

(***************************************************************************)
(* clearFrameRegion called once on an opaque canvas two rows high, with a  *)
(* frame rectangle that starts inside the canvas and may extend past its   *)
(* right or bottom edge.                                                   *)
(***************************************************************************)
ClearCanvasWidths == {2, 3}

ClearRects(canvasWidth) ==
    {[x |-> x, y |-> y, width |-> w, height |-> h] :
        x \in 0 .. canvasWidth - 1, y \in 0 .. 1, w \in 1 .. 3, h \in 1 .. 2}

ClearInit ==
    /\ AppInit
    /\ pc = "clearFrameRegion"
    /\ \E canvasWidth \in ClearCanvasWidths :
          \E frame \in ClearRects(canvasWidth) :
              args = [buffer |-> [k \in 1 .. canvasWidth * 2 * 4 |-> 255],
                      canvasWidth |-> canvasWidth, canvasHeight |-> 2,
                      frame |-> frame]
    /\ locals = <<>>
    /\ ret = <<>>

\* App.tsx:1438-1443
CallClearFrameRegion ==
    /\ pc = "clearFrameRegion"
    /\ ret' = [buffer |-> clearFrameRegion(args.buffer, args.canvasWidth,
                                           args.frame, 0)]
    /\ pc' = "clearFrameRegion returned"
    /\ UNCHANGED <<args, locals>>
    /\ AppIdle

ClearNext == CallClearFrameRegion

SpecClear == ClearInit /\ [][ClearNext]_vars

\* every pixel of the frame's rectangle is transparent and every other pixel
\* of the canvas is as it was
ClearsOnlyFrame ==
    \A px \in 0 .. args.canvasWidth - 1 : \A py \in 0 .. args.canvasHeight - 1 :
        PixelOf(ret.buffer, args.canvasWidth, px, py)
            = IF InFrame(args.frame, px, py)
              THEN Transparent
              ELSE PixelOf(args.buffer, args.canvasWidth, px, py)

\* C30: for every frame rectangle, one that reaches or extends past the
\* canvas's right edge included, clearFrameRegion zeroes the pixels inside
\* the rectangle and leaves every other pixel of the canvas unchanged.
C30_RegionClear == pc = "clearFrameRegion returned" => ClearsOnlyFrame

\* the same for the rectangles that end at or before the right edge
C30_RegionClearInsideCanvas ==
    (/\ pc = "clearFrameRegion returned"
     /\ args.frame.x + args.frame.width <= args.canvasWidth) => ClearsOnlyFrame

====
